---- MODULE Spec2Model ----
(***************************************************************************)
(* podproxy: the cluster router (ClusterDialer.DialContext), the address   *)
(* parser (ParseTarget), the retrying target dialer                        *)
(* (PortForwarder.dialTarget / waitBackoff), the retry classifier          *)
(* (isRetriableError), the stream connection (StreamConn: Close, Read, the *)
(* error-stream monitor and the byte counters) and the service             *)
(* resolver (ResolveServiceToPod) of internal/kube, the retry-once         *)
(* transport (retryTransport) of internal/proxy, the HTTP proxy            *)
(* (handleConnect, relay, handleHTTP), the pod dialer (dialPod), the       *)
(* loading of the configuration (config.LoadConfig) and the shutdown of    *)
(* main.                                                                   *)
(*                                                                         *)
(* Addresses, host names and error messages are TLA+ strings and the Go    *)
(* library calls on them (net.SplitHostPort, strings.TrimSuffix,           *)
(* strings.Split, strconv.Atoi, strings.Contains) are computed character   *)
(* by character.  A Go error value is the sequence of the layers of its    *)
(* Unwrap chain, outermost first; the nil error is the empty sequence.     *)
(***************************************************************************)
EXTENDS Integers, Sequences, FiniteSets, TLC

VARIABLES
    Forwarders,   \* ClusterDialer.Forwarders: cluster name -> PortForwarder
    pc,           \* position of the DialContext call: idle, resolve, dial, backoff, done
    addr,         \* the addr argument of the call in progress
    target,       \* the Target handed to dialTarget
    forwarder,    \* the key of the PortForwarder whose dialTarget runs ("" for none)
    attempt,      \* the loop variable of dialTarget
    podName,      \* the local podName of the current attempt
    lastErr,      \* the local lastErr of dialTarget
    ctxErr,       \* ctx.Err() of the caller's context (Nil while it is live)
    calls,        \* history: how often the call parsed, dialed TCP, resolved, dialed a pod
    waits,        \* history: the backoff durations of the call, in order
    lastCall,     \* history: the last resolver or pod-dialer call and its outcome
    lastResolve,  \* history: the last resolver call and its outcome
    cancelAt,     \* history: where the call was when its context ended
    ret,          \* what the call returned: [conn, err]
    clsErr,       \* the argument of isRetriableError in the classifier runs
    clsRes,       \* its result: "none" before the call, then "true" or "false"
    parseIn,      \* the argument of ParseTarget in the parser runs: [tuple, suffix, addr]
    parseRet,     \* what it returned: [done, err, target]
    once,         \* StreamConn.closeOnce: new, running, done
    closePc,      \* position of each goroutine that calls StreamConn.Close
    closeErr,     \* the local err of each Close call
    closed,       \* history: the streams and the session, in the order they were closed
    closeOuts,    \* history: what the three close operations returned
    closeRets,    \* history: what the Close calls returned, [ran, err], in the order they returned
    monPc,        \* monitorErrors: reading, or done (errDone is closed)
    remoteErr,    \* StreamConn.remoteErr
    readPc,       \* position of the StreamConn.Read call: idle, select, done
    readOwn,      \* what dataStream.Read returned to the call: [n, err]
    readVia,      \* history: the case the select of the call took
    readRet,      \* what the call returned: [n, err]
    epIn,         \* the arguments of ResolveServiceToPod and the answer of the API: [ns, svc, listErr, slices]
    epRet,        \* what it returned: [done, pod, err]
    rtPc,         \* position of the retryTransport.RoundTrip call: idle, first, retry, done
    rtReq,        \* the request of the call: [hasBody, body, readErr]
    bodyBytes,    \* the local bodyBytes of the call: [isNil, data]
    reqBody,      \* req.Body: [isNil, data, pos], a reader at position pos of data
    rtCalls,      \* history: the calls of base.RoundTrip, in order
    idlesClosed,  \* history: how often the call called base.CloseIdleConnections
    rtRet,        \* what the call returned: [resp, err]
    hcPc,         \* position of the handleConnect call: idle, relay, done
    hcIn,         \* what the call met: [dialErr, hijacker, hijackErr, writeErr, buffered, drained]
    wStatus,      \* the status handleConnect wrote through the ResponseWriter (0 for none)
    hijacks,      \* history: how often the call took the connection over with Hijack
    sent,         \* per direction: how many bytes the sending peer has written so far
    peerDone,     \* per direction: the sending peer has closed its side
    taken,        \* per direction: how many of these bytes the proxy has read
    hand,         \* per direction: the bytes the copy task has read and not yet written
    recv,         \* per direction: what was written to the receiving side, in order
    copyPc,       \* per direction: the copy task of relay: none, read, write, close, done
    closes,       \* per endpoint: how often its Close was called
    fwPc,         \* position of the handleHTTP call: idle, done
    fwReq,        \* the request of the call: [url, header]
    fwOut,        \* what the transport's RoundTrip returned: [err, dialed, status, header]
    outHeader,    \* history: the header of the request handed to RoundTrip
    fwCalls,      \* history: how often the call called RoundTrip
    fwDials,      \* history: how often the transport called DialContext for the call
    wCode,        \* the status the call wrote (0 for none)
    wHeader,      \* the header the call wrote
    rootDone,     \* main: the context of signal.NotifyContext is done
    mainPc,       \* position of main: serving, exited (the process has ended)
    shutPc,       \* per HTTP server: the goroutine of gracefulShutdown: waiting, shutdown, returned
    connSt,       \* per connection: none, active, completed, killed (cut by the end of the process)
    connSrv,      \* per connection: the HTTP server that accepted it ("" for none)
    cfgPc,        \* position of main at start-up: idle, loaded, serving, exit
    cfgIn,        \* what LoadConfig found: the Config and the environment
    cfgLoaded,    \* history: the kubeconfig files LoadConfig parsed, in order
    cfgRet,       \* what LoadConfig returned: [clusters, err]
    cfgTable,     \* the keys of the forwarders map main built
    dpPc,         \* position of the dialPod call: idle, done
    dpIn,         \* the arguments of the call and what its calls met
    dpCreated,    \* history: the CreateStream calls of the call, in order: [headers, err]
    dpClosed,     \* history: what the call closed, in order
    dpOpen,       \* the session and the streams the call has left open
    dpRet,        \* what the call returned: [conn, err]
    bytesRead,    \* StreamConn.bytesRead
    bytesWritten, \* StreamConn.bytesWritten
    ioPc,         \* position of each Read or Write call: idle, add, ret
    ioGot,        \* what the data stream returned to the call: [n, err]
    ioSeen,       \* the counter as it was when the data stream returned to the call
    ioRet,        \* history: the calls that returned and the bytes they returned
    esPending,    \* the bytes the remote side wrote to the error stream, not yet read
    esEnd,        \* the remote side of the error stream: open, eof, failed
    esSends,      \* history: the writes of the remote side to the error stream
    monBuf,       \* the bytes io.ReadAll has read in monitorErrors
    monOut        \* what io.ReadAll returned to monitorErrors: [buf, err]

dialVars == <<Forwarders, pc, addr, target, forwarder, attempt, podName, lastErr, ctxErr,
              calls, waits, lastCall, lastResolve, cancelAt, ret>>

classifyVars == <<clsErr, clsRes>>

parseVars == <<parseIn, parseRet>>

streamVars == <<once, closePc, closeErr, closed, closeOuts, closeRets, monPc, remoteErr,
                readPc, readOwn, readVia, readRet>>

resolveVars == <<epIn, epRet>>

retryVars == <<rtPc, rtReq, bodyBytes, reqBody, rtCalls, idlesClosed, rtRet>>

tunnelVars == <<hcPc, hcIn, wStatus, hijacks, sent, peerDone, taken, hand, recv, copyPc, closes>>

forwardVars == <<fwPc, fwReq, fwOut, outHeader, fwCalls, fwDials, wCode, wHeader>>

shutdownVars == <<rootDone, mainPc, shutPc, connSt, connSrv>>

configVars == <<cfgPc, cfgIn, cfgLoaded, cfgRet, cfgTable>>

dialPodVars == <<dpPc, dpIn, dpCreated, dpClosed, dpOpen, dpRet>>

counterVars == <<bytesRead, bytesWritten, ioPc, ioGot, ioSeen, ioRet>>

monitorVars == <<esPending, esEnd, esSends, monBuf, monOut>>

\* the variables that a call of DialContext leaves alone
nonDialVars == <<classifyVars, parseVars, streamVars, resolveVars, retryVars, tunnelVars,
    forwardVars, shutdownVars,
    configVars, dialPodVars, counterVars, monitorVars>>

\* the variables that a run of the classifier leaves alone
nonClassifyVars == <<dialVars, parseVars, streamVars, resolveVars, retryVars, tunnelVars,
    forwardVars, shutdownVars,
    configVars, dialPodVars, counterVars, monitorVars>>

\* the variables that a run of the parser leaves alone
nonParseVars == <<dialVars, classifyVars, streamVars, resolveVars, retryVars, tunnelVars,
    forwardVars, shutdownVars,
    configVars, dialPodVars, counterVars, monitorVars>>

\* the variables that the operations of a StreamConn leave alone
nonStreamVars == <<dialVars, classifyVars, parseVars, resolveVars, retryVars, tunnelVars,
    forwardVars, shutdownVars,
    configVars, dialPodVars, counterVars, monitorVars>>

\* the variables that a run of the resolver leaves alone
nonResolveVars == <<dialVars, classifyVars, parseVars, streamVars, retryVars, tunnelVars,
    forwardVars, shutdownVars,
    configVars, dialPodVars, counterVars, monitorVars>>

\* the variables that a call of retryTransport.RoundTrip leaves alone
nonRetryVars == <<dialVars, classifyVars, parseVars, streamVars, resolveVars, tunnelVars,
    forwardVars, shutdownVars,
    configVars, dialPodVars, counterVars, monitorVars>>

\* the variables that a CONNECT tunnel leaves alone
nonTunnelVars == <<dialVars, classifyVars, parseVars, streamVars, resolveVars, retryVars,
    forwardVars, shutdownVars,
    configVars, dialPodVars, counterVars, monitorVars>>

\* the variables that a forwarded HTTP request leaves alone
nonForwardVars == <<dialVars, classifyVars, parseVars, streamVars, resolveVars, retryVars,
    tunnelVars, shutdownVars,
    configVars, dialPodVars, counterVars, monitorVars>>

\* the variables that the shutdown of the process leaves alone
nonShutdownVars == <<dialVars, classifyVars, parseVars, streamVars, resolveVars, retryVars,
    tunnelVars, forwardVars,
    configVars, dialPodVars, counterVars, monitorVars>>

\* the variables that the loading of the configuration leaves alone
nonConfigVars == <<dialVars, classifyVars, parseVars, streamVars, resolveVars, retryVars,
    tunnelVars, forwardVars, shutdownVars, dialPodVars, counterVars, monitorVars>>

\* the variables that a call of dialPod leaves alone
nonDialPodVars == <<dialVars, classifyVars, parseVars, streamVars, resolveVars, retryVars,
    tunnelVars, forwardVars, shutdownVars, configVars, counterVars, monitorVars>>

\* the variables that Read and Write leave alone when they count
nonCounterVars == <<dialVars, classifyVars, parseVars, streamVars, resolveVars, retryVars,
    tunnelVars, forwardVars, shutdownVars, configVars, dialPodVars, monitorVars>>

\* the variables that the error stream and the reads of the monitor leave alone
nonMonitorVars == <<dialVars, classifyVars, parseVars, streamVars, resolveVars, retryVars,
    tunnelVars, forwardVars, shutdownVars, configVars, dialPodVars, counterVars>>

\* the variables of everything but the StreamConn and its monitor
besidesStreamVars == <<dialVars, classifyVars, parseVars, resolveVars, retryVars,
    tunnelVars, forwardVars, shutdownVars, configVars, dialPodVars, counterVars>>

vars == <<dialVars, nonDialVars>>

(***************************************************************************)
(* Bounds of the model.                                                    *)
(***************************************************************************)
\* the longest host, in labels, before a DNS suffix is appended
MaxLabels == 5
\* the deepest Unwrap chain below the outermost layer of a classified error
MaxWrapDepth == 2
\* the most calls of StreamConn.Close on one connection
MaxCloses == 3
\* the most endpoints in the EndpointSlices of one service
MaxEndpoints == 3
\* the longest request body, in bytes
MaxBodyLen == 2

\* the bytes a peer sends into one direction of a tunnel
MaxBytes == 2

\* the connections the HTTP servers accept before the process ends
MaxConns == 2

\* the most paths in KUBECONFIG, and the most patterns in the kubeconfigs field
MaxPaths == 2

\* the Read and Write calls of a StreamConn, all goroutines together
MaxIoCalls == 3

\* the writes of the remote side to the error stream of a StreamConn
MaxSends == 2

(***************************************************************************)
(* Program constants.                                                      *)
(***************************************************************************)
\* a loop bound that is off by one
dialMaxAttempts_seven == 6 + 1
dialMaxAttempts == 6
dialBackoffScale == 2
\* dialBaseBackoff (1 s), the unit in which the waits of the trace are counted
dialBaseBackoff == 1
\* a parser that refuses the highest port
MaxPort_low == 65535 - 1
MaxPort == 65535

(***************************************************************************)
(* Go strings.                                                             *)
(***************************************************************************)
Char(s, i) == SubSeq(s, i, i)

\* strings.Repeat(s, n)
RECURSIVE Rep(_, _)
Rep(s, n) ==
    IF n = 0 THEN ""
    ELSE IF n % 2 = 0 THEN LET h == Rep(s, n \div 2) IN h \o h
    ELSE s \o Rep(s, n - 1)

HasSuffix(s, suffix) ==
    /\ Len(s) >= Len(suffix)
    /\ SubSeq(s, Len(s) - Len(suffix) + 1, Len(s)) = suffix

\* strings.TrimSuffix
TrimSuffix(s, suffix) ==
    IF HasSuffix(s, suffix) THEN SubSeq(s, 1, Len(s) - Len(suffix)) ELSE s

\* strings.Contains, for a non-empty substr
Contains(s, substr) ==
    \E i \in 1..(Len(s) - Len(substr) + 1) : SubSeq(s, i, i + Len(substr) - 1) = substr

\* the positions of the byte c in s
Positions(s, c) == {i \in 1..Len(s) : Char(s, i) = c}

SetMax(S) == CHOOSE x \in S : \A y \in S : y <= x
SetMin(S) == CHOOSE x \in S : \A y \in S : x <= y

\* strings.Split(s, sep) for a one-byte sep: never empty, <<"">> for s = ""
RECURSIVE Split(_, _)
Split(s, sep) ==
    IF Positions(s, sep) = {}
    THEN <<s>>
    ELSE LET i == SetMin(Positions(s, sep))
         IN  <<SubSeq(s, 1, i - 1)>> \o Split(SubSeq(s, i + 1, Len(s)), sep)

\* strings.Join
RECURSIVE Join(_, _)
Join(parts, sep) ==
    IF Len(parts) = 0 THEN ""
    ELSE IF Len(parts) = 1 THEN parts[1]
    ELSE parts[1] \o sep \o Join(Tail(parts), sep)

Digits == {"0", "1", "2", "3", "4", "5", "6", "7", "8", "9"}

DigitVal(c) ==
    CASE c = "0" -> 0 [] c = "1" -> 1 [] c = "2" -> 2 [] c = "3" -> 3
      [] c = "4" -> 4 [] c = "5" -> 5 [] c = "6" -> 6 [] c = "7" -> 7
      [] c = "8" -> 8 [] c = "9" -> 9

RECURSIVE DecVal(_)
DecVal(s) ==
    IF Len(s) = 0 THEN 0
    ELSE 10 * DecVal(SubSeq(s, 1, Len(s) - 1)) + DigitVal(Char(s, Len(s)))

\* strconv.Atoi: an optional sign, then one or more decimal digits
Atoi(s) ==
    LET signed == Len(s) > 0 /\ Char(s, 1) \in {"+", "-"}
        body   == IF signed THEN SubSeq(s, 2, Len(s)) ELSE s
        okSyn  == Len(body) > 0 /\ \A i \in 1..Len(body) : Char(body, i) \in Digits
    IN  IF ~okSyn THEN [ok |-> FALSE, val |-> 0]
        ELSE [ok |-> TRUE,
              val |-> IF signed /\ Char(s, 1) = "-" THEN 0 - DecVal(body) ELSE DecVal(body)]

\* fmt's %d
RECURSIVE ItoaNat(_)
ItoaNat(n) ==
    LET d == CHOOSE c \in Digits : DigitVal(c) = n % 10
    IN  IF n < 10 THEN d ELSE ItoaNat(n \div 10) \o d

Itoa(n) == IF n < 0 THEN "-" \o ItoaNat(0 - n) ELSE ItoaNat(n)

\* fmt's %q, for strings without characters that need escaping
Quote(s) == "\"" \o s \o "\""

\* net.SplitHostPort on addresses without brackets: the port follows the last
\* colon, and a second colon in the host is an error
SplitHostPort(hostport) ==
    LET colons == Positions(hostport, ":")
        i      == SetMax(colons)
        host   == SubSeq(hostport, 1, i - 1)
    IN  IF colons = {}
        THEN [ok |-> FALSE, host |-> "", port |-> "", why |-> "missing port in address"]
        ELSE IF Positions(host, ":") # {}
        THEN [ok |-> FALSE, host |-> "", port |-> "", why |-> "too many colons in address"]
        ELSE [ok |-> TRUE, host |-> host, port |-> SubSeq(hostport, i + 1, Len(hostport)),
              why |-> ""]

(***************************************************************************)
(* Go errors.  A layer is [id, text, net, timeout]: id names the concrete  *)
(* value (a sentinel, an errno) or the type of a wrapper, text is the      *)
(* layer's own part of the message, net says whether the layer implements  *)
(* net.Error and timeout is what its Timeout() returns.                    *)
(***************************************************************************)
Nil == <<>>

Leaf(id, text, net, timeout) ==
    <<[id |-> id, text |-> text, net |-> net, timeout |-> timeout]>>

\* syscall.Errno implements Timeout() and Temporary(), hence net.Error
EPIPE        == Leaf("EPIPE", "broken pipe", TRUE, FALSE)
ECONNRESET   == Leaf("ECONNRESET", "connection reset by peer", TRUE, FALSE)
ECONNREFUSED == Leaf("ECONNREFUSED", "connection refused", TRUE, FALSE)
ETIMEDOUT    == Leaf("ETIMEDOUT", "connection timed out", TRUE, TRUE)
EACCES       == Leaf("EACCES", "permission denied", TRUE, FALSE)
EOF          == Leaf("EOF", "EOF", FALSE, FALSE)
ErrUnexpectedEOF == Leaf("ErrUnexpectedEOF", "unexpected EOF", FALSE, FALSE)
Canceled     == Leaf("Canceled", "context canceled", FALSE, FALSE)
\* context.deadlineExceededError has Timeout() = true and Temporary() = true
DeadlineExceeded == Leaf("DeadlineExceeded", "context deadline exceeded", TRUE, TRUE)

\* errors.New(text)
New(text) == Leaf("errorString", text, FALSE, FALSE)

\* fmt.Errorf(prefix + "%w", err)
Errorf(prefix, err) == Leaf("wrapError", prefix, FALSE, FALSE) \o err

\* a net.Error that has an Unwrap method (*net.OpError, *url.Error): its
\* Timeout() is its own answer, not a search of the chain below it
NetWrap(prefix, timeout, err) == Leaf("netWrapper", prefix, TRUE, timeout) \o err

\* err.Error(): every wrapper renders its prefix and then the wrapped message
RECURSIVE ErrorMsg(_)
ErrorMsg(err) ==
    IF Len(err) = 0 THEN "" ELSE err[1].text \o ErrorMsg(Tail(err))

\* errors.Is(err, target) for a comparable target: some layer of the chain is it
ErrorsIs(err, sentinel) == \E i \in 1..Len(err) : err[i].id = sentinel[1].id

\* errors.As(err, &netErr) && netErr.Timeout(): the FIRST layer of the chain
\* that implements net.Error is the one asked
AsNetErrorTimeout(err) ==
    LET I == {i \in 1..Len(err) : err[i].net}
    IN  I # {} /\ err[SetMin(I)].timeout

NoReadyPodEndpoints == "no ready pod endpoints"

isRetriableError(err) ==
    \/ \E t \in {EPIPE, ECONNRESET, ECONNREFUSED, EOF, ErrUnexpectedEOF} : ErrorsIs(err, t)
    \/ AsNetErrorTimeout(err)
    \/ Contains(ErrorMsg(err), NoReadyPodEndpoints)

(***************************************************************************)
(* The address parser and the router's cluster test.                       *)
(***************************************************************************)
SvcClusterLocal == ".svc.cluster.local"
\* a parser and a router that know only the long suffix
Svc_none == ""
Svc == ".svc"

NoTarget ==
    [Cluster |-> "", IsService |-> FALSE, ServiceName |-> "", PodName |-> "",
     Namespace |-> "", Port |-> 0]

\* *net.AddrError: a net.Error whose Timeout() is false
AddrError(a, why) == Leaf("AddrError", "address " \o a \o ": " \o why, TRUE, FALSE)

\* *strconv.NumError wrapping strconv.ErrSyntax
NumError(num) ==
    Leaf("NumError", "strconv.Atoi: parsing " \o Quote(num) \o ": ", FALSE, FALSE)
        \o Leaf("ErrSyntax", "invalid syntax", FALSE, FALSE)

ParseTarget(a) ==
    LET hp    == SplitHostPort(a)
        n     == Atoi(hp.port)
        host  == TrimSuffix(TrimSuffix(hp.host, SvcClusterLocal), Svc)
        parts == Split(host, ".")
        fail(e) == [err |-> e, target |-> NoTarget]
    IN  IF ~hp.ok
        THEN fail(Errorf("invalid address " \o Quote(a) \o ": ", AddrError(a, hp.why)))
        ELSE IF ~n.ok
        THEN fail(Errorf("invalid port " \o Quote(hp.port) \o ": ", NumError(hp.port)))
        ELSE IF n.val < 1 \/ n.val > MaxPort
        THEN fail(New("port " \o Itoa(n.val) \o " out of range 1-65535"))
        ELSE CASE Len(parts) = 2 ->
                    [err |-> Nil,
                     target |-> [Cluster |-> parts[2], IsService |-> TRUE,
                                 ServiceName |-> parts[1], PodName |-> "",
                                 Namespace |-> "", Port |-> n.val]]
               [] Len(parts) = 3 ->
                    [err |-> Nil,
                     target |-> [Cluster |-> parts[3], IsService |-> TRUE,
                                 ServiceName |-> parts[1], PodName |-> "",
                                 Namespace |-> parts[2], Port |-> n.val]]
               [] Len(parts) = 4 ->
                    [err |-> Nil,
                     target |-> [Cluster |-> parts[4], IsService |-> FALSE,
                                 ServiceName |-> parts[2], PodName |-> parts[1],
                                 Namespace |-> parts[3], Port |-> n.val]]
               [] OTHER ->
                    fail(New("unsupported address format " \o Quote(host)
                             \o ": expected 2-4 dot-separated components"))

\* a router that matches the cluster before stripping the DNS suffixes
clusterSuffix_noStrip(F, a) ==
    LET hp    == SplitHostPort(a)
        parts == Split(hp.host, ".")
    IN  IF ~hp.ok \/ Len(parts) < 2 THEN ""
        ELSE IF parts[Len(parts)] \in DOMAIN F THEN parts[Len(parts)] ELSE ""

\* ClusterDialer.clusterSuffix, F the Forwarders map
clusterSuffix(F, a) ==
    LET hp    == SplitHostPort(a)
        host  == TrimSuffix(TrimSuffix(hp.host, SvcClusterLocal), Svc)
        parts == Split(host, ".")
    IN  IF ~hp.ok \/ Len(parts) < 2 THEN ""
        ELSE IF parts[Len(parts)] \in DOMAIN F THEN parts[Len(parts)] ELSE ""

(***************************************************************************)
(* The router table.  main builds one PortForwarder per resolved cluster;  *)
(* ValidateClusters has rejected empty names and names with dots, and      *)
(* loadKubeconfigFile has replaced an empty namespace by "default".        *)
(***************************************************************************)
ClusterNames == {"prod", "svc"}

ContextNamespace(c) == IF c = "prod" THEN "default" ELSE "apps"

MkForwarders(S) == [c \in S |-> [DefaultNamespace |-> ContextNamespace(c), isNil |-> FALSE]]

ForwarderTables == {MkForwarders(S) : S \in (SUBSET ClusterNames) \ {{}}}

(***************************************************************************)
(* The history of one call.                                                *)
(***************************************************************************)
NoConn == [kind |-> "nil", id |-> 0]

NoCalls == [parse |-> 0, tcp |-> 0, resolve |-> 0, resolveFailed |-> 0, dial |-> 0]

NoCall ==
    [op |-> "none", attempt |-> 0, ns |-> "", name |-> "", port |-> 0, out |-> "",
     err |-> Nil, conn |-> NoConn]

NotCancelled == [pc |-> "none", attempt |-> 0, resolve |-> 0, dial |-> 0]

Idle ==
    /\ pc = "idle"
    /\ addr = ""
    /\ target = NoTarget
    /\ forwarder = ""
    /\ attempt = 0
    /\ podName = ""
    /\ lastErr = Nil
    /\ ctxErr = Nil
    /\ calls = NoCalls
    /\ waits = <<>>
    /\ lastCall = NoCall
    /\ lastResolve = NoCall
    /\ cancelAt = NotCancelled
    /\ ret = [conn |-> NoConn, err |-> Nil]

\* no classifier run
ClassifyRest ==
    /\ clsErr = Nil
    /\ clsRes = "none"

\* a tuple of the address grammar; pod and ns are "" when absent
NoTuple == [pod |-> "", svc |-> "", ns |-> "", cluster |-> "", port |-> 0]

NotParsed == [done |-> FALSE, err |-> Nil, target |-> NoTarget]

\* no parser run
ParseRest ==
    /\ parseIn = [tuple |-> NoTuple, suffix |-> "", addr |-> ""]
    /\ parseRet = NotParsed

\* the goroutines that may call StreamConn.Close: the two directions of a relay
Closers == {1, 2}

NoCloseOuts == [data |-> Nil, error |-> Nil, spdy |-> Nil]

NoRead == [n |-> 0, err |-> Nil]

\* a StreamConn as NewStreamConn returns it: nothing closed, the monitor reading
StreamRest ==
    /\ once = "new"
    /\ closePc = [c \in Closers |-> "idle"]
    /\ closeErr = [c \in Closers |-> Nil]
    /\ closed = <<>>
    /\ closeOuts = NoCloseOuts
    /\ closeRets = <<>>
    /\ monPc = "reading"
    /\ remoteErr = Nil
    /\ readPc = "idle"
    /\ readOwn = NoRead
    /\ readVia = "none"
    /\ readRet = NoRead

NotResolved == [done |-> FALSE, pod |-> "", err |-> Nil]

\* no resolver run
ResolveRest ==
    /\ epIn = [ns |-> "", svc |-> "", listErr |-> Nil, slices |-> <<>>]
    /\ epRet = NotResolved

NoBody == [isNil |-> TRUE, data |-> "", pos |-> 0]

NoBytes == [isNil |-> TRUE, data |-> ""]

NoRequest == [hasBody |-> FALSE, body |-> "", readErr |-> Nil]

NoResponse == [resp |-> 0, err |-> Nil]

\* no call of retryTransport.RoundTrip
RetryRest ==
    /\ rtPc = "idle"
    /\ rtReq = NoRequest
    /\ bodyBytes = NoBytes
    /\ reqBody = NoBody
    /\ rtCalls = <<>>
    /\ idlesClosed = 0
    /\ rtRet = NoResponse

\* the two directions of a tunnel: client to upstream, upstream to client
Directions == {"up", "down"}

\* the two endpoints of a tunnel
Endpoints == {"client", "upstream"}

NoConnect ==
    [dialErr |-> Nil, hijacker |-> TRUE, hijackErr |-> Nil, writeErr |-> Nil,
     buffered |-> 0, drained |-> 0]

\* no CONNECT request
TunnelRest ==
    /\ hcPc = "idle"
    /\ hcIn = NoConnect
    /\ wStatus = 0
    /\ hijacks = 0
    /\ sent = [d \in Directions |-> 0]
    /\ peerDone = [d \in Directions |-> FALSE]
    /\ taken = [d \in Directions |-> 0]
    /\ hand = [d \in Directions |-> <<>>]
    /\ recv = [d \in Directions |-> <<>>]
    /\ copyPc = [d \in Directions |-> "none"]
    /\ closes = [e \in Endpoints |-> 0]

\* a header without fields
NoHeader == [k \in {} |-> <<>>]

NoURL == [scheme |-> "", host |-> "", path |-> ""]

NoOutcome == [err |-> Nil, dialed |-> 0, status |-> 0, header |-> NoHeader]

\* no forwarded request
ForwardRest ==
    /\ fwPc = "idle"
    /\ fwReq = [url |-> NoURL, header |-> NoHeader]
    /\ fwOut = NoOutcome
    /\ outHeader = NoHeader
    /\ fwCalls = 0
    /\ fwDials = 0
    /\ wCode = 0
    /\ wHeader = NoHeader

\* the HTTP servers main starts: the HTTP proxy and the PAC server
Servers == {"http", "pac"}

\* the connections the HTTP servers may accept
Conns == 1..MaxConns

\* main has started its servers and waits for the signal
ShutdownRest ==
    /\ rootDone = FALSE
    /\ mainPc = "serving"
    /\ shutPc = [s \in Servers |-> "waiting"]
    /\ connSt = [c \in Conns |-> "none"]
    /\ connSrv = [c \in Conns |-> ""]

NoConfig ==
    [yamlErr |-> Nil, ListenAddress |-> "", HTTPListenAddress |-> "", PACListenAddress |-> "",
     SkipDefaultKubeconfig |-> FALSE, SkipKubeconfigEnv |-> FALSE, Kubeconfigs |-> <<>>,
     KUBECONFIG |-> "", defaultExists |-> FALSE]

\* main has not called LoadConfig yet
ConfigRest ==
    /\ cfgPc = "idle"
    /\ cfgIn = NoConfig
    /\ cfgLoaded = <<>>
    /\ cfgRet = [clusters |-> <<>>, err |-> Nil]
    /\ cfgTable = {}

\* no call of dialPod
DialPodRest ==
    /\ dpPc = "idle"
    /\ dpIn = [ns |-> "", pod |-> "", port |-> 0, rtErr |-> Nil, dialErr |-> Nil,
               errStreamErr |-> Nil, dataStreamErr |-> Nil]
    /\ dpCreated = <<>>
    /\ dpClosed = <<>>
    /\ dpOpen = {}
    /\ dpRet = [conn |-> "nil", err |-> Nil]

\* no Read or Write call, nothing counted
CounterRest ==
    /\ bytesRead = 0
    /\ bytesWritten = 0
    /\ ioPc = [t \in {"r1", "r2", "w1", "w2"} |-> "idle"]
    /\ ioGot = [t \in {"r1", "r2", "w1", "w2"} |-> [n |-> 0, err |-> Nil]]
    /\ ioSeen = [t \in {"r1", "r2", "w1", "w2"} |-> 0]
    /\ ioRet = [calls |-> 0, read |-> 0, written |-> 0]

\* the error stream of a new StreamConn: nothing written, nothing read
MonitorRest ==
    /\ esPending = ""
    /\ esEnd = "open"
    /\ esSends = 0
    /\ monBuf = ""
    /\ monOut = [buf |-> "", err |-> Nil]

(***************************************************************************)
(* dialTarget.                                                             *)
(***************************************************************************)
RECURSIVE pow(_, _)
pow(base, exp) == IF exp = 0 THEN 1 ELSE base * pow(base, exp - 1)

\* a backoff that grows linearly
Backoff_linear(n) == dialBaseBackoff * (n + 1)

\* waitBackoff's duration for the attempt, in units of the base backoff
Backoff(n) == dialBaseBackoff * pow(dialBackoffScale, n)

\* return from DialContext
Return(conn, err) ==
    /\ pc' = "done"
    /\ ret' = [conn |-> conn, err |-> err]

\* a retry loop that does not ask the classifier
AfterFailure_alwaysRetry(err) ==
    /\ lastErr' = err
    /\ IF attempt = dialMaxAttempts - 1
       THEN Return(NoConn, err) /\ UNCHANGED waits
       ELSE /\ pc' = "backoff"
            /\ waits' = Append(waits, Backoff(attempt))
            /\ UNCHANGED ret

\* a loop that tests the error before it records it, and returns the recorded one
AfterFailure_staleLastErr(err) ==
    /\ lastErr' = err
    /\ IF ~isRetriableError(err)
       THEN Return(NoConn, lastErr) /\ UNCHANGED waits
       ELSE IF attempt = dialMaxAttempts - 1
       THEN Return(NoConn, err) /\ UNCHANGED waits
       ELSE /\ pc' = "backoff"
            /\ waits' = Append(waits, Backoff(attempt))
            /\ UNCHANGED ret

\* what follows a failed resolve or pod dial of the current attempt: record
\* the error, break on a non-retriable one, else waitBackoff; waitBackoff
\* comes back at once after the last attempt and the loop ends
AfterFailure(err) ==
    /\ lastErr' = err
    /\ IF ~isRetriableError(err)
       THEN Return(NoConn, err) /\ UNCHANGED waits
       ELSE IF attempt = dialMaxAttempts - 1
       THEN Return(NoConn, err) /\ UNCHANGED waits
       ELSE /\ pc' = "backoff"
            /\ waits' = Append(waits, Backoff(attempt))
            /\ UNCHANGED ret

\* a loop that resolves the service once and keeps the pod for the retries
EnterAttempt_resolveOnce(t, n) ==
    /\ attempt' = n
    /\ podName' = IF n = 0 THEN t.PodName ELSE podName
    /\ pc' = IF t.IsService /\ n = 0 THEN "resolve" ELSE "dial"

\* the top of the loop body: podName := target.PodName, then resolve or dial
EnterAttempt(t, n) ==
    /\ attempt' = n
    /\ podName' = t.PodName
    /\ pc' = IF t.IsService THEN "resolve" ELSE "dial"

\* a resolve whose result is assigned to a shadowing variable of the if block
ResolvedPod_shadowed(out, current) == current

\* podName, err = resolve(...): the attempt's pod is the one just resolved
ResolvedPod(out, current) == out.pod

\* the resolver call of a service-mode attempt; out is what the resolver returns
Resolve(out) ==
    /\ pc = "resolve"
    /\ calls' = [calls EXCEPT !.resolve = @ + 1,
                              !.resolveFailed = IF out.err = Nil THEN @ ELSE @ + 1]
    /\ LET ev == [op |-> "resolve", attempt |-> attempt, ns |-> target.Namespace,
                  name |-> target.ServiceName, port |-> 0, out |-> out.pod,
                  err |-> out.err, conn |-> NoConn]
       IN  lastCall' = ev /\ lastResolve' = ev
    /\ IF out.err # Nil
       THEN AfterFailure(out.err) /\ UNCHANGED podName
       ELSE /\ podName' = ResolvedPod(out, podName)
            /\ pc' = "dial"
            /\ UNCHANGED <<lastErr, waits, ret>>
    /\ UNCHANGED <<Forwarders, addr, target, forwarder, attempt, ctxErr, cancelAt, nonDialVars>>

\* the pod-dialer call of an attempt; out is what the pod dialer returns
DialPod(out) ==
    /\ pc = "dial"
    /\ calls' = [calls EXCEPT !.dial = @ + 1]
    /\ LET conn == IF out.err = Nil THEN [kind |-> "stream", id |-> calls.dial + 1]
                   ELSE NoConn
       IN  /\ lastCall' = [op |-> "dial", attempt |-> attempt, ns |-> target.Namespace,
                           name |-> podName, port |-> target.Port, out |-> "",
                           err |-> out.err, conn |-> conn]
           /\ IF out.err = Nil
              THEN Return(conn, Nil) /\ UNCHANGED <<lastErr, waits>>
              ELSE AfterFailure(out.err)
    /\ UNCHANGED <<Forwarders, addr, target, forwarder, attempt, podName, ctxErr, lastResolve,
                   cancelAt, nonDialVars>>

\* the select of waitBackoff was entered with ctx.Done() already closed
DoneBeforeWait == ctxErr # Nil /\ ~(cancelAt.pc = "backoff" /\ cancelAt.attempt = attempt)

\* a wait that does not watch the context
TimerMayFire_always == TRUE

\* whether the select of waitBackoff can take its timer case.  A context that
\* ends while the select blocks wakes the Done case; with the context done
\* before the select is entered both cases can be ready, and the select picks
\* either
TimerMayFire == ctxErr = Nil \/ DoneBeforeWait

\* waitBackoff's timer case: the loop goes on with the next attempt
BackoffElapsed ==
    /\ pc = "backoff"
    /\ TimerMayFire
    /\ EnterAttempt(target, attempt + 1)
    /\ UNCHANGED <<Forwarders, addr, target, forwarder, lastErr, ctxErr, calls, waits,
                   lastCall, lastResolve, cancelAt, ret, nonDialVars>>

\* the error of a cancelled retry, which drops the failure that caused the wait
CancelledError_bare(cause, ctxerr) == ctxerr

\* the error dialTarget returns when waitBackoff reports a done context:
\* fmt.Errorf("dial retry cancelled: %w", ctx.Err()); cause is lastErr
CancelledError(cause, ctxerr) == Errorf("dial retry cancelled: ", ctxerr)

\* waitBackoff's ctx.Done() case
BackoffCancelled ==
    /\ pc = "backoff"
    /\ ctxErr # Nil
    /\ Return(NoConn, CancelledError(lastErr, ctxErr))
    /\ UNCHANGED <<Forwarders, addr, target, forwarder, attempt, podName, lastErr, ctxErr, calls,
                   waits, lastCall, lastResolve, cancelAt, nonDialVars>>

\* the caller cancels the context (e = Canceled) or its deadline passes
CtxDone(e) ==
    /\ pc \in {"idle", "resolve", "dial", "backoff"}
    /\ ctxErr = Nil
    /\ ctxErr' = e
    /\ cancelAt' = [pc |-> pc, attempt |-> attempt, resolve |-> calls.resolve,
                    dial |-> calls.dial]
    /\ UNCHANGED <<Forwarders, pc, addr, target, forwarder, attempt, podName, lastErr, calls, waits,
                   lastCall, lastResolve, ret, nonDialVars>>

(***************************************************************************)
(* ClusterDialer.DialContext.                                              *)
(***************************************************************************)
\* (&net.Dialer{}).DialContext fails when the context is done
TCPOutcomes(a) ==
    IF ctxErr # Nil
    THEN {NetWrap("dial tcp: ", ctxErr = DeadlineExceeded, New("operation was canceled"))}
    ELSE {Nil, NetWrap("dial tcp " \o a \o ": ", FALSE, ECONNREFUSED)}

\* a router that always hands over the cluster's default namespace
FillNamespace_always(t, fwd) == [t EXCEPT !.Namespace = fwd.DefaultNamespace]

\* fill in the cluster's default namespace when the address names none
FillNamespace(t, fwd) ==
    IF t.Namespace = "" THEN [t EXCEPT !.Namespace = fwd.DefaultNamespace] ELSE t

Direct == [kind |-> "direct", parsed |-> FALSE, cluster |-> "", target |-> NoTarget, err |-> Nil]

\* a router that falls back to a direct dial when the address does not parse
Route_fallback(F, a) ==
    LET cluster == clusterSuffix(F, a)
        p       == ParseTarget(a)
    IN  IF cluster # "" /\ p.err = Nil /\ ~F[cluster].isNil
        THEN [kind |-> "forward", parsed |-> TRUE, cluster |-> cluster,
              target |-> FillNamespace(p.target, F[cluster]), err |-> Nil]
        ELSE [Direct EXCEPT !.parsed = (cluster # "")]

\* a router that refuses an address of a Kubernetes shape whose cluster it does
\* not know
Route_unknownCluster(F, a) ==
    LET cluster == clusterSuffix(F, a)
        p       == ParseTarget(a)
    IN  IF cluster # ""
        THEN IF p.err # Nil
             THEN [kind |-> "error", parsed |-> TRUE, cluster |-> cluster,
                   target |-> NoTarget, err |-> p.err]
             ELSE [kind |-> "forward", parsed |-> TRUE, cluster |-> cluster,
                   target |-> FillNamespace(p.target, F[cluster]), err |-> Nil]
        ELSE IF p.err = Nil
        THEN [kind |-> "error", parsed |-> TRUE, cluster |-> p.target.Cluster,
              target |-> NoTarget,
              err |-> New("cluster " \o Quote(p.target.Cluster)
                          \o " not found in forwarders map")]
        ELSE Direct

\* the decision of DialContext: fail with an error, forward to a cluster's
\* dialTarget, or dial directly
Route(F, a) ==
    LET cluster == clusterSuffix(F, a)
        p       == ParseTarget(a)
    IN  IF cluster # ""
        THEN IF p.err # Nil
             THEN [kind |-> "error", parsed |-> TRUE, cluster |-> cluster,
                   target |-> NoTarget, err |-> p.err]
             ELSE IF F[cluster].isNil
             THEN [kind |-> "error", parsed |-> TRUE, cluster |-> cluster,
                   target |-> NoTarget,
                   err |-> New("cluster " \o Quote(cluster) \o " not found in forwarders map")]
             ELSE [kind |-> "forward", parsed |-> TRUE, cluster |-> cluster,
                   target |-> FillNamespace(p.target, F[cluster]), err |-> Nil]
        ELSE Direct

DialContext(a) ==
    /\ pc = "idle"
    /\ addr' = a
    /\ LET r == Route(Forwarders, a)
       IN  /\ calls' = [calls EXCEPT !.parse = IF r.parsed THEN @ + 1 ELSE @,
                                     !.tcp = IF r.kind = "direct" THEN @ + 1 ELSE @]
           /\ CASE r.kind = "error" ->
                    /\ Return(NoConn, r.err)
                    /\ UNCHANGED <<target, forwarder, attempt, podName, lastCall>>
                [] r.kind = "forward" ->
                    /\ target' = r.target
                    /\ forwarder' = r.cluster
                    /\ EnterAttempt(r.target, 0)
                    /\ UNCHANGED <<ret, lastCall>>
                [] r.kind = "direct" ->
                    /\ \E e \in TCPOutcomes(a) :
                          /\ Return(IF e = Nil THEN [kind |-> "tcp", id |-> 0] ELSE NoConn, e)
                          /\ lastCall' = [NoCall EXCEPT !.op = "tcp", !.name = a, !.err = e]
                    /\ UNCHANGED <<target, forwarder, attempt, podName>>
    /\ UNCHANGED <<Forwarders, lastErr, ctxErr, waits, lastResolve, cancelAt,
                   nonDialVars>>

\* the caller takes the result; the next call starts from a fresh context
Reset ==
    /\ pc = "done"
    /\ pc' = "idle"
    /\ addr' = ""
    /\ target' = NoTarget
    /\ forwarder' = ""
    /\ attempt' = 0
    /\ podName' = ""
    /\ lastErr' = Nil
    /\ ctxErr' = Nil
    /\ calls' = NoCalls
    /\ waits' = <<>>
    /\ lastCall' = NoCall
    /\ lastResolve' = NoCall
    /\ cancelAt' = NotCancelled
    /\ ret' = [conn |-> NoConn, err |-> Nil]
    /\ UNCHANGED <<Forwarders, nonDialVars>>

(***************************************************************************)
(* What the resolver and the pod dialer can answer.                        *)
(***************************************************************************)
\* ResolveServiceToPod's answers: a ready pod, no ready endpoint, an API error
ErrNoReadyPods(t) ==
    New("no ready pod endpoints found for service " \o t.Namespace \o "/" \o t.ServiceName)

ErrForbidden(t) ==
    Errorf("listing endpoint slices for service " \o t.Namespace \o "/" \o t.ServiceName
           \o ": ", New("forbidden"))

Pods == {"db-0", "db-1"}

ResolveOutcomes(t) ==
    {[pod |-> p, err |-> Nil] : p \in Pods}
        \cup {[pod |-> "", err |-> e] : e \in {ErrNoReadyPods(t), ErrForbidden(t)}}

\* dialPod's answers: a stream, or the SPDY dial error wrapped
DialErrors(ns, pod) ==
    {Errorf("SPDY dial to " \o ns \o "/" \o pod \o ": ", e) :
        e \in {ECONNRESET, EOF, New("permission denied")}}

DialOutcomes(ns, pod) == {[err |-> Nil]} \cup {[err |-> e] : e \in DialErrors(ns, pod)}

(***************************************************************************)
(* Spec: calls of DialContext on a few addresses of every shape, with      *)
(* every answer of the resolver and the pod dialer and a context that can  *)
(* end at any point.                                                       *)
(***************************************************************************)
DialAddrs ==
    {"db.prod:5432", "db.apps.prod.svc.cluster.local:5432", "db-0.db.apps.prod:5432",
     "api.github.com:443", "a.b.c.d.prod:80", "db.prod:http"}

Init ==
    /\ Forwarders \in ForwarderTables
    /\ Idle
    /\ ClassifyRest
    /\ ParseRest
    /\ StreamRest
    /\ ResolveRest
    /\ RetryRest
    /\ TunnelRest
    /\ ForwardRest
    /\ ShutdownRest
    /\ ConfigRest
    /\ DialPodRest
    /\ CounterRest
    /\ MonitorRest

Next ==
    \/ pc = "idle" /\ \E a \in DialAddrs : DialContext(a)
    \/ \E out \in ResolveOutcomes(target) : Resolve(out)
    \/ \E out \in DialOutcomes(target.Namespace, podName) : DialPod(out)
    \/ BackoffElapsed
    \/ BackoffCancelled
    \/ \E e \in {Canceled, DeadlineExceeded} : CtxDone(e)
    \/ Reset

Spec == Init /\ [][Next]_vars

(***************************************************************************)
(* SpecRoute: DialContext on every address built from a few labels, with   *)
(* and without the DNS suffixes, with a good, a bad or a missing port.      *)
(* The resolver and the pod dialer answer once (a success or an error that *)
(* is not retried): what is explored is the routing.                       *)
(***************************************************************************)
RouteLabels == {"", "db", "prod", "svc"}

RECURSIVE LabelSeqs(_)
LabelSeqs(n) ==
    IF n = 0 THEN {<<>>}
    ELSE LET shorter == LabelSeqs(n - 1)
         IN  shorter \cup {Append(q, l) : q \in {x \in shorter : Len(x) = n - 1},
                                          l \in RouteLabels}

RouteSuffixes == {"", ".svc", ".svc.cluster.local", ".svc.svc.cluster.local", ".cluster.local"}

\* a non-numeric, an out-of-range, an empty and a missing port
RouteBadPorts == {":http", ":0", ":", ""}

RouteHosts(n) == {Join(q, ".") \o x : q \in LabelSeqs(n) \ {<<>>}, x \in RouteSuffixes}

\* every host with a good port, the hosts of one or two labels with the bad ones too
RouteAddrs ==
    {h \o ":80" : h \in RouteHosts(MaxLabels)}
        \cup {h \o p : h \in RouteHosts(2), p \in RouteBadPorts}
        \cup {"db.db.db.db.prod:http", "db.db.db.db.prod.svc:0"}

RouteResolveOutcomes(t) == {[pod |-> "db-0", err |-> Nil], [pod |-> "", err |-> ErrForbidden(t)]}

RouteDialOutcomes(ns, pod) ==
    {[err |-> Nil],
     [err |-> Errorf("SPDY dial to " \o ns \o "/" \o pod \o ": ", New("permission denied"))]}

NextRoute ==
    \/ pc = "idle" /\ \E a \in RouteAddrs : DialContext(a)
    \/ \E out \in RouteResolveOutcomes(target) : Resolve(out)
    \/ \E out \in RouteDialOutcomes(target.Namespace, podName) : DialPod(out)
    \/ Reset

SpecRoute == Init /\ [][NextRoute]_vars

(***************************************************************************)
(* SpecClassify: isRetriableError on every error chain of a bounded depth. *)
(***************************************************************************)
\* net's timeoutError ("i/o timeout"), a net.Error whose Timeout() is true
ErrIOTimeout == Leaf("timeoutError", "i/o timeout", TRUE, TRUE)

ClsLeaves ==
    {EPIPE, ECONNRESET, ECONNREFUSED, ETIMEDOUT, EACCES, EOF, ErrUnexpectedEOF,
     Canceled, DeadlineExceeded, ErrIOTimeout,
     New("permission denied"),
     New("dial: broken pipe"),
     New("no ready pod endpoints found for service apps/db")}

\* fmt.Errorf("SPDY dial: %w", e)
ClsErrorf(e) == Errorf("SPDY dial: ", e)

\* &url.Error{Op: "Post", Err: e}, and likewise *net.OpError: a net.Error with
\* an Unwrap method whose Timeout() asks the error directly below it, by a type
\* assertion and not by a search of the chain
ClsURLError(e) == NetWrap("Post: ", e[1].net /\ e[1].timeout, e)

RECURSIVE ClsChains(_)
ClsChains(d) ==
    IF d = 0 THEN ClsLeaves
    ELSE LET inner == ClsChains(d - 1)
         IN  inner \cup {ClsErrorf(e) : e \in inner} \cup {ClsURLError(e) : e \in inner}

InitClassify ==
    /\ Forwarders \in ForwarderTables
    /\ Idle
    /\ clsErr \in ClsChains(MaxWrapDepth)
    /\ clsRes = "none"
    /\ ParseRest
    /\ StreamRest
    /\ ResolveRest
    /\ RetryRest
    /\ TunnelRest
    /\ ForwardRest
    /\ ShutdownRest
    /\ ConfigRest
    /\ DialPodRest
    /\ CounterRest
    /\ MonitorRest

Classify ==
    /\ clsRes = "none"
    /\ clsRes' = IF isRetriableError(clsErr) THEN "true" ELSE "false"
    /\ UNCHANGED <<clsErr, nonClassifyVars>>

NextClassify == Classify

SpecClassify == InitClassify /\ [][NextClassify]_vars

(***************************************************************************)
(* SpecParse: ParseTarget on the canonical rendering of every tuple of the *)
(* address grammar over a few labels, with and without a DNS suffix, and   *)
(* on every host built from a few labels (the empty one among them) with   *)
(* good, bad and missing ports.                                            *)
(***************************************************************************)
GrammarLabels == {"db", "prod", "svc"}

GrammarPorts == {1, 80, MaxPort}

\* <svc>.<cluster>, <svc>.<ns>.<cluster> and <pod>.<svc>.<ns>.<cluster>
GrammarTuples ==
    {[pod |-> "", svc |-> s, ns |-> "", cluster |-> c, port |-> p] :
        s \in GrammarLabels, c \in GrammarLabels, p \in GrammarPorts}
    \cup {[pod |-> "", svc |-> s, ns |-> n, cluster |-> c, port |-> p] :
        s \in GrammarLabels, n \in GrammarLabels, c \in GrammarLabels, p \in GrammarPorts}
    \cup {[pod |-> q, svc |-> s, ns |-> n, cluster |-> c, port |-> p] :
        q \in GrammarLabels, s \in GrammarLabels, n \in GrammarLabels,
        c \in GrammarLabels, p \in GrammarPorts}

\* the host of the canonical rendering [pod.]svc[.ns].cluster
RenderHost(t) ==
    (IF t.pod = "" THEN "" ELSE t.pod \o ".") \o t.svc
        \o (IF t.ns = "" THEN "" ELSE "." \o t.ns) \o "." \o t.cluster

\* the canonical rendering with a suffix appended to the host
Render(t, suffix) == RenderHost(t) \o suffix \o ":" \o Itoa(t.port)

DNSSuffixes == {"", Svc, SvcClusterLocal}

ParsePorts == {":1", ":65535", ":+80", ":0", ":-1", ":65536", ":http", ":", ""}

ParseAddrs ==
    {h \o ":80" : h \in RouteHosts(MaxLabels)}
        \cup {h \o p : h \in RouteHosts(3), p \in ParsePorts}

ParseInputs ==
    {[tuple |-> t, suffix |-> x, addr |-> Render(t, x)] : t \in GrammarTuples, x \in DNSSuffixes}
        \cup {[tuple |-> NoTuple, suffix |-> "", addr |-> a] : a \in ParseAddrs}

InitParse ==
    /\ Forwarders = MkForwarders(ClusterNames)
    /\ Idle
    /\ ClassifyRest
    /\ parseIn \in ParseInputs
    /\ parseRet = NotParsed
    /\ StreamRest
    /\ ResolveRest
    /\ RetryRest
    /\ TunnelRest
    /\ ForwardRest
    /\ ShutdownRest
    /\ ConfigRest
    /\ DialPodRest
    /\ CounterRest
    /\ MonitorRest

Parse ==
    /\ ~parseRet.done
    /\ LET r == ParseTarget(parseIn.addr)
       IN  parseRet' = [done |-> TRUE, err |-> r.err, target |-> r.target]
    /\ UNCHANGED <<parseIn, nonParseVars>>

NextParse == Parse

SpecParse == InitParse /\ [][NextParse]_vars

(***************************************************************************)
(* StreamConn: Close under sync.Once, monitorErrors and Read.  Close is    *)
(* modelled step by step, so that a second call can arrive while the       *)
(* first is between two of its close operations.                           *)
(***************************************************************************)
\* the function that closeOnce.Do runs: first dataStream.Close()
CloseData(c, e) ==
    /\ closePc[c] = "data"
    /\ closePc' = [closePc EXCEPT ![c] = "error"]
    /\ closeErr' = [closeErr EXCEPT ![c] = e]
    /\ closed' = Append(closed, "data")
    /\ closeOuts' = [closeOuts EXCEPT !.data = e]
    /\ UNCHANGED <<once, closeRets, monPc, remoteErr, readPc, readOwn, readVia, readRet,
                   nonStreamVars>>

\* if closeErr := sc.errorStream.Close(); err == nil { err = closeErr }
FirstErr(err, closeError) == IF err = Nil THEN closeError ELSE err

CloseErrorStream(c, e) ==
    /\ closePc[c] = "error"
    /\ closePc' = [closePc EXCEPT ![c] = "spdy"]
    /\ closeErr' = [closeErr EXCEPT ![c] = FirstErr(closeErr[c], e)]
    /\ closed' = Append(closed, "error")
    /\ closeOuts' = [closeOuts EXCEPT !.error = e]
    /\ UNCHANGED <<once, closeRets, monPc, remoteErr, readPc, readOwn, readVia, readRet,
                   nonStreamVars>>

\* sc.spdyConn.Close(), its result dropped; the function returns and the Once is done
CloseSpdy(c, e) ==
    /\ closePc[c] = "spdy"
    /\ closePc' = [closePc EXCEPT ![c] = "return"]
    /\ closed' = Append(closed, "spdy")
    /\ closeOuts' = [closeOuts EXCEPT !.spdy = e]
    /\ once' = "done"
    /\ UNCHANGED <<closeErr, closeRets, monPc, remoteErr, readPc, readOwn, readVia, readRet,
                   nonStreamVars>>

\* var err error; sc.closeOnce.Do(...): the first caller runs the function, a
\* caller that arrives while it runs waits for it, a later one goes on at once
CloseCall(c) ==
    /\ closePc[c] = "idle"
    /\ Len(closeRets) + Cardinality({d \in Closers : closePc[d] # "idle"}) < MaxCloses
    /\ closeErr' = [closeErr EXCEPT ![c] = Nil]
    /\ closePc' = [closePc EXCEPT ![c] = CASE once = "new" -> "data"
                                           [] once = "running" -> "blocked"
                                           [] once = "done" -> "skip"]
    /\ once' = IF once = "new" THEN "running" ELSE once
    /\ UNCHANGED <<closed, closeOuts, closeRets, monPc, remoteErr, readPc, readOwn,
                   readVia, readRet,
                   nonStreamVars>>

\* a Once that lets a second caller go on while the function still runs
CloseUnblock_early(c) ==
    /\ closePc[c] = "blocked"
    /\ closePc' = [closePc EXCEPT ![c] = "skip"]
    /\ UNCHANGED <<once, closeErr, closed, closeOuts, closeRets, monPc, remoteErr, readPc,
                   readOwn, readVia, readRet,
                   nonStreamVars>>

\* closeOnce.Do returns to a caller that waited
CloseUnblock(c) ==
    /\ closePc[c] = "blocked"
    /\ once = "done"
    /\ closePc' = [closePc EXCEPT ![c] = "skip"]
    /\ UNCHANGED <<once, closeErr, closed, closeOuts, closeRets, monPc, remoteErr, readPc,
                   readOwn, readVia, readRet,
                   nonStreamVars>>

\* return err, after the function ran in this call ("return") or was skipped
CloseReturn(c) ==
    /\ closePc[c] \in {"return", "skip"}
    /\ closePc' = [closePc EXCEPT ![c] = "idle"]
    /\ closeRets' = Append(closeRets, [ran |-> closePc[c] = "return", err |-> closeErr[c]])
    /\ UNCHANGED <<once, closeErr, closed, closeOuts, monPc, remoteErr, readPc, readOwn,
                   readVia, readRet,
                   nonStreamVars>>

\* a monitor that closes errDone before it stores the error
MonitorProgram_signalFirst == <<"signal", "store">>

\* the rest of monitorErrors after io.ReadAll: the store of remoteErr under the
\* mutex, then the deferred calls, Unlock and, last, close(sc.errDone)
MonitorProgram == <<"store", "signal">>

\* the number of statements of MonitorProgram the monitor has executed
MonitorSteps == CASE monPc = "reading" -> 0 [] monPc = "finishing" -> 1 [] monPc = "done" -> 2

\* sc.errDone is closed
ErrDoneClosed == \E i \in 1..MonitorSteps : MonitorProgram[i] = "signal"

\* a monitor that reads the error stream without a limit
maxErrorBytes_unlimited == 4096 * 4

\* const maxErrorBytes: the limit of the io.LimitReader around the error stream
maxErrorBytes == 4096

\* the value of sc.remoteErr after the store of monitorErrors; old is the value
\* before it
RemoteErrOf(buf, err, old) ==
    IF err # Nil THEN Errorf("reading error stream: ", err)
    ELSE IF Len(buf) > 0 THEN New("remote error: " \o buf)
    ELSE old

\* monitorErrors as one step: io.ReadAll returns buf and err; remoteErr is set
\* under the mutex and errDone is closed after it
MonitorFinish(buf, err) ==
    /\ monPc = "reading"
    /\ monPc' = "done"
    /\ remoteErr' = RemoteErrOf(buf, err, remoteErr)
    /\ UNCHANGED <<once, closePc, closeErr, closed, closeOuts, closeRets, readPc, readOwn,
                   readVia, readRet,
                   nonStreamVars>>

\* a Read that hands out the remote error as soon as there is one
ReadResult_eager(own, waited, remote) == IF remote # Nil THEN remote ELSE own.err

\* the error Read returns: own is what the data stream returned, waited says
\* that the select took the errDone case, remote is remoteErr
ReadResult(own, waited, remote) ==
    IF own.err = EOF /\ waited /\ remote # Nil THEN remote ELSE own.err

\* n, err := sc.dataStream.Read(b): on EOF the call enters the select, on
\* anything else it returns
ReadData(out) ==
    /\ readPc = "idle"
    /\ readOwn' = out
    /\ readVia' = "none"
    /\ IF out.err = EOF
       THEN /\ readPc' = "select"
            /\ readRet' = NoRead
       ELSE /\ readPc' = "done"
            /\ readRet' = [n |-> out.n, err |-> ReadResult(out, FALSE, remoteErr)]
    /\ UNCHANGED <<once, closePc, closeErr, closed, closeOuts, closeRets, monPc, remoteErr,
                   nonStreamVars>>

\* case <-sc.errDone
ReadErrDone ==
    /\ readPc = "select"
    /\ ErrDoneClosed
    /\ readPc' = "done"
    /\ readVia' = "errDone"
    /\ readRet' = [n |-> readOwn.n, err |-> ReadResult(readOwn, TRUE, remoteErr)]
    /\ UNCHANGED <<once, closePc, closeErr, closed, closeOuts, closeRets, monPc, remoteErr,
                   readOwn,
                   nonStreamVars>>

\* case <-time.After(5 * time.Second): the monitor has not finished in time
ReadTimeout ==
    /\ readPc = "select"
    /\ ~ErrDoneClosed
    /\ readPc' = "done"
    /\ readVia' = "timeout"
    /\ readRet' = [n |-> readOwn.n, err |-> ReadResult(readOwn, FALSE, remoteErr)]
    /\ UNCHANGED <<once, closePc, closeErr, closed, closeOuts, closeRets, monPc, remoteErr,
                   readOwn,
                   nonStreamVars>>

\* the caller takes the result of Read
ReadReturn ==
    /\ readPc = "done"
    /\ readPc' = "idle"
    /\ UNCHANGED <<once, closePc, closeErr, closed, closeOuts, closeRets, monPc, remoteErr,
                   readOwn, readVia, readRet,
                   nonStreamVars>>

(***************************************************************************)
(* SpecStream: one StreamConn, two goroutines that call Close, one that    *)
(* calls Read, and the monitor.  Every close operation and every read of   *)
(* a stream may fail.  The timer of Read's select fires when the monitor   *)
(* has not finished, which is what the fairness conditions say.            *)
(***************************************************************************)
ErrCloseData == New("data stream: close failed")
ErrCloseError == New("error stream: close failed")
ErrCloseSpdy == New("spdy connection: close failed")

\* what dataStream.Read returns
DataReads == {[n |-> n, err |-> e] : n \in {0, 2}, e \in {Nil, EOF, ECONNRESET}}

\* what io.ReadAll on the error stream returns
MonitorReads ==
    {[buf |-> "", err |-> Nil], [buf |-> "pod not found", err |-> Nil],
     [buf |-> "", err |-> ECONNRESET]}

InitStream ==
    /\ Forwarders = MkForwarders(ClusterNames)
    /\ Idle
    /\ ClassifyRest
    /\ ParseRest
    /\ StreamRest
    /\ ResolveRest
    /\ RetryRest
    /\ TunnelRest
    /\ ForwardRest
    /\ ShutdownRest
    /\ ConfigRest
    /\ DialPodRest
    /\ CounterRest
    /\ MonitorRest

NextStream ==
    \/ \E c \in Closers : CloseCall(c)
    \/ \E c \in Closers, e \in {Nil, ErrCloseData} : CloseData(c, e)
    \/ \E c \in Closers, e \in {Nil, ErrCloseError} : CloseErrorStream(c, e)
    \/ \E c \in Closers, e \in {Nil, ErrCloseSpdy} : CloseSpdy(c, e)
    \/ \E c \in Closers : CloseUnblock(c)
    \/ \E c \in Closers : CloseReturn(c)
    \/ \E out \in MonitorReads : MonitorFinish(out.buf, out.err)
    \/ \E out \in DataReads : ReadData(out)
    \/ ReadErrDone
    \/ ReadTimeout
    \/ ReadReturn

SpecStream ==
    /\ InitStream
    /\ [][NextStream]_vars
    /\ WF_vars(ReadErrDone)
    /\ WF_vars(ReadTimeout)

(***************************************************************************)
(* ResolveServiceToPod.  An endpoint is [Ready, Serving, Terminating, ref]: *)
(* a condition is a *bool ("nil", "true" or "false") and ref is the        *)
(* TargetRef, [isNil, Kind, Name].                                         *)
(***************************************************************************)
\* a resolver that takes an unset Ready for not ready
Skipped_unsetIsNotReady(ep) ==
    \/ ep.Ready # "true"
    \/ ep.Serving # "nil" /\ ep.Serving # "true"
    \/ ep.Terminating # "nil" /\ ep.Terminating = "true"

\* the three continue statements of the inner loop
Skipped(ep) ==
    \/ ep.Ready # "nil" /\ ep.Ready # "true"
    \/ ep.Serving # "nil" /\ ep.Serving # "true"
    \/ ep.Terminating # "nil" /\ ep.Terminating = "true"

\* the inner loop: the first endpoint that is not skipped and refers to a Pod
RECURSIVE ScanEndpoints(_)
ScanEndpoints(eps) ==
    IF eps = <<>> THEN [found |-> FALSE, pod |-> ""]
    ELSE LET ep == Head(eps)
         IN  IF ~Skipped(ep) /\ ~ep.ref.isNil /\ ep.ref.Kind = "Pod"
             THEN [found |-> TRUE, pod |-> ep.ref.Name]
             ELSE ScanEndpoints(Tail(eps))

\* the outer loop
RECURSIVE ScanSlices(_)
ScanSlices(slices) ==
    IF slices = <<>> THEN [found |-> FALSE, pod |-> ""]
    ELSE LET r == ScanEndpoints(Head(slices))
         IN  IF r.found THEN r ELSE ScanSlices(Tail(slices))

ResolveServiceToPod(in) ==
    IF in.listErr # Nil
    THEN [pod |-> "",
          err |-> Errorf("listing endpoint slices for service " \o in.ns \o "/" \o in.svc
                         \o ": ", in.listErr)]
    ELSE LET r == ScanSlices(in.slices)
         IN  IF r.found THEN [pod |-> r.pod, err |-> Nil]
             ELSE [pod |-> "",
                   err |-> New("no ready pod endpoints found for service " \o in.ns
                               \o "/" \o in.svc)]

(***************************************************************************)
(* SpecResolve: ResolveServiceToPod on every list of at most MaxEndpoints   *)
(* endpoints of a few kinds, split over two EndpointSlices at every place, *)
(* and on a failed List.                                                   *)
(***************************************************************************)
Endpoint(ready, serving, terminating, kind, name) ==
    [Ready |-> ready, Serving |-> serving, Terminating |-> terminating,
     ref |-> [isNil |-> kind = "", Kind |-> kind, Name |-> name]]

EndpointKinds ==
    {Endpoint("nil", "nil", "nil", "Pod", "db-0"),
     Endpoint("true", "true", "false", "Pod", "db-1"),
     Endpoint("false", "nil", "nil", "Pod", "db-2"),
     Endpoint("true", "false", "nil", "Pod", "db-3"),
     Endpoint("true", "true", "true", "Pod", "db-4"),
     Endpoint("true", "true", "false", "Node", "node-1"),
     Endpoint("nil", "nil", "nil", "", "")}

RECURSIVE EndpointSeqs(_)
EndpointSeqs(n) ==
    IF n = 0 THEN {<<>>}
    ELSE LET shorter == EndpointSeqs(n - 1)
         IN  shorter \cup {Append(q, ep) : q \in {x \in shorter : Len(x) = n - 1},
                                           ep \in EndpointKinds}

\* a List that succeeded with two slices, and one that failed
ResolveInputs ==
    UNION {{[ns |-> "apps", svc |-> "db", listErr |-> Nil,
             slices |-> <<SubSeq(q, 1, k), SubSeq(q, k + 1, Len(q))>>] : k \in 0..Len(q)} :
           q \in EndpointSeqs(MaxEndpoints)}
    \cup {[ns |-> "apps", svc |-> "db", listErr |-> e, slices |-> <<>>] :
            e \in {New("endpointslices.discovery.k8s.io is forbidden"), ECONNREFUSED}}

InitResolve ==
    /\ Forwarders = MkForwarders(ClusterNames)
    /\ Idle
    /\ ClassifyRest
    /\ ParseRest
    /\ StreamRest
    /\ epIn \in ResolveInputs
    /\ epRet = NotResolved
    /\ RetryRest
    /\ TunnelRest
    /\ ForwardRest
    /\ ShutdownRest
    /\ ConfigRest
    /\ DialPodRest
    /\ CounterRest
    /\ MonitorRest

ResolveRun ==
    /\ ~epRet.done
    /\ LET r == ResolveServiceToPod(epIn)
       IN  epRet' = [done |-> TRUE, pod |-> r.pod, err |-> r.err]
    /\ UNCHANGED <<epIn, nonResolveVars>>

NextResolve == ResolveRun

SpecResolve == InitResolve /\ [][NextResolve]_vars

(***************************************************************************)
(* retryTransport.RoundTrip.  A body reader is [isNil, data, pos]: what is *)
(* left to read is data after position pos.  A call of the base transport  *)
(* is recorded as [offered, read, idles, resp, err]: the body its request  *)
(* offered, how many bytes of it the transport read, how often             *)
(* CloseIdleConnections had been called before, and what it returned.      *)
(***************************************************************************)
\* a transport that retries after every error
isBrokenPipeErr_any(err) == TRUE

isBrokenPipeErr(err) ==
    \/ ErrorsIs(err, EPIPE)
    \/ ErrorsIs(err, ECONNRESET)
    \/ Contains(ErrorMsg(err), "broken pipe")
    \/ Contains(ErrorMsg(err), "connection reset")

\* io.NopCloser(bytes.NewReader(data))
NewReader(data) == [isNil |-> FALSE, data |-> data, pos |-> 0]

\* what a reader has left
Unread(body) == SubSeq(body.data, body.pos + 1, Len(body.data))

\* a retry that sends the request as the first attempt left it
RebuildBody_none(bytes, body) == body

\* if bodyBytes != nil { req.Body = io.NopCloser(bytes.NewReader(bodyBytes)) }
RebuildBody(bytes, body) == IF ~bytes.isNil THEN NewReader(bytes.data) ELSE body

\* the call buffers the body and hands the request to the base transport
RoundTrip(req) ==
    /\ rtPc = "idle"
    /\ rtReq' = req
    /\ IF req.hasBody /\ req.readErr # Nil
       THEN /\ rtPc' = "done"
            /\ rtRet' = [resp |-> 0, err |-> req.readErr]
            /\ UNCHANGED <<bodyBytes, reqBody>>
       ELSE /\ rtPc' = "first"
            /\ bodyBytes' = IF req.hasBody THEN [isNil |-> FALSE, data |-> req.body]
                            ELSE NoBytes
            /\ reqBody' = IF req.hasBody THEN NewReader(req.body) ELSE NoBody
            /\ UNCHANGED rtRet
    /\ UNCHANGED <<rtCalls, idlesClosed, nonRetryVars>>

\* the record of a call of base.RoundTrip that read k bytes of the body
BaseCall(k, out) ==
    [offered |-> [isNil |-> reqBody.isNil, data |-> Unread(reqBody)], read |-> k,
     idles |-> idlesClosed, resp |-> out.resp, err |-> out.err]

\* resp, err := t.base.RoundTrip(req), and what follows it
BaseFirst(k, out) ==
    /\ rtPc = "first"
    /\ k \in 0..Len(Unread(reqBody))
    /\ rtCalls' = Append(rtCalls, BaseCall(k, out))
    /\ LET consumed == [reqBody EXCEPT !.pos = @ + k]
       IN  IF out.err = Nil \/ ~isBrokenPipeErr(out.err)
           THEN /\ rtPc' = "done"
                /\ rtRet' = out
                /\ reqBody' = consumed
                /\ UNCHANGED idlesClosed
           ELSE /\ rtPc' = "retry"
                /\ idlesClosed' = idlesClosed + 1
                /\ reqBody' = RebuildBody(bodyBytes, consumed)
                /\ UNCHANGED rtRet
    /\ UNCHANGED <<rtReq, bodyBytes, nonRetryVars>>

\* return t.base.RoundTrip(req)
BaseRetry(k, out) ==
    /\ rtPc = "retry"
    /\ k \in 0..Len(Unread(reqBody))
    /\ rtCalls' = Append(rtCalls, BaseCall(k, out))
    /\ reqBody' = [reqBody EXCEPT !.pos = @ + k]
    /\ rtPc' = "done"
    /\ rtRet' = out
    /\ UNCHANGED <<rtReq, bodyBytes, idlesClosed, nonRetryVars>>

\* the caller takes the result; the next request starts afresh
RoundTripDone ==
    /\ rtPc = "done"
    /\ rtPc' = "idle"
    /\ rtReq' = NoRequest
    /\ bodyBytes' = NoBytes
    /\ reqBody' = NoBody
    /\ rtCalls' = <<>>
    /\ idlesClosed' = 0
    /\ rtRet' = NoResponse
    /\ UNCHANGED nonRetryVars

(***************************************************************************)
(* SpecRetry: requests without a body, with every body of at most          *)
(* MaxBodyLen bytes and with a body that fails to read, over a base        *)
(* transport that reads any part of the body and returns a response or an  *)
(* error on either attempt.                                                *)
(***************************************************************************)
RECURSIVE Bodies(_)
Bodies(n) ==
    IF n = 0 THEN {""}
    ELSE LET shorter == Bodies(n - 1)
         IN  shorter \cup {b \o c : b \in {x \in shorter : Len(x) = n - 1}, c \in {"a", "b"}}

Requests ==
    {NoRequest}
        \cup {[hasBody |-> TRUE, body |-> b, readErr |-> Nil] : b \in Bodies(MaxBodyLen)}
        \cup {[hasBody |-> TRUE, body |-> "a", readErr |-> ErrUnexpectedEOF]}

\* a *url.Error above a *net.OpError above the errno
ErrPostReset == NetWrap("Post: ", FALSE, NetWrap("write tcp: ", FALSE, ECONNRESET))

BaseOutcomes ==
    {[resp |-> 200, err |-> Nil], [resp |-> 502, err |-> Nil]}
        \cup {[resp |-> 0, err |-> e] :
                e \in {EPIPE, ErrPostReset, New("http2: client conn: broken pipe"),
                       New("some other error"), ECONNREFUSED}}

InitRetry ==
    /\ Forwarders = MkForwarders(ClusterNames)
    /\ Idle
    /\ ClassifyRest
    /\ ParseRest
    /\ StreamRest
    /\ ResolveRest
    /\ RetryRest
    /\ TunnelRest
    /\ ForwardRest
    /\ ShutdownRest
    /\ ConfigRest
    /\ DialPodRest
    /\ CounterRest
    /\ MonitorRest

NextRetry ==
    \/ \E req \in Requests : RoundTrip(req)
    \/ \E k \in 0..MaxBodyLen, out \in BaseOutcomes : BaseFirst(k, out)
    \/ \E k \in 0..MaxBodyLen, out \in BaseOutcomes : BaseRetry(k, out)
    \/ RoundTripDone

SpecRetry == InitRetry /\ [][NextRetry]_vars

(***************************************************************************)
(* SpecConnect: HTTPProxy.handleConnect and relay.  The bytes a peer sends *)
(* in one direction are numbered 1, 2, ... in the order it sends them, so  *)
(* that what arrives on the other side can be compared with what was sent. *)
(* The status line of the tunnel is the item Established in the bytes that *)
(* go to the client.                                                       *)
(***************************************************************************)
StatusBadGateway == 502

StatusInternalServerError == 500

\* "HTTP/1.1 200 Connection Established\r\n\r\n" as an item of the client's stream
Established == 0

\* the connection a copy task reads from, and the one it writes to and then closes
Src(d) == IF d = "up" THEN "client" ELSE "upstream"

Dst(d) == IF d = "up" THEN "upstream" ELSE "client"

\* the bytes numbered from..to
Bytes(from, to) == [i \in 1..(to - from + 1) |-> from + i - 1]

CanHijack_always(in) == TRUE

\* hj, ok := w.(http.Hijacker)
CanHijack(in) == in.hijacker

Drain_skipped(n) == <<>>

\* io.CopyN(upstream, buf, buffered) wrote n bytes of the parser's buffer
Drain(n) == Bytes(1, n)

\* how far handleConnect gets: the step that ends it, or relay
ConnectStage(in) ==
    IF in.dialErr # Nil THEN "dial"
    ELSE IF ~CanHijack(in) THEN "assert"
    ELSE IF in.hijackErr # Nil THEN "hijack"
    ELSE IF in.writeErr # Nil THEN "write"
    ELSE IF in.drained < in.buffered THEN "drain"
    ELSE "relay"

\* a handler that defers upstream.Close() only once it has the client connection
Deferred_afterHijack(stage) ==
    IF stage \in {"write", "drain", "relay"} THEN {"upstream", "client"} ELSE {}

\* the connections whose Close handleConnect has deferred when it stops at the
\* stage: upstream after the dial, client after the hijack
Deferred(stage) ==
    (IF stage # "dial" THEN {"upstream"} ELSE {})
        \cup (IF stage \in {"write", "drain", "relay"} THEN {"client"} ELSE {})

\* handleConnect up to the call of relay, or to its return when a step fails;
\* the deferred Close calls run when it returns
handleConnect(in) ==
    LET stage == ConnectStage(in)
        took == stage \in {"write", "drain", "relay"}
        wrote == stage \in {"drain", "relay"}
        returns == stage # "relay"
    IN  /\ hcPc = "idle"
        /\ hcIn' = in
        /\ wStatus' = CASE stage = "dial" -> StatusBadGateway
                        [] stage = "assert" -> StatusInternalServerError
                        [] OTHER -> 0
        /\ hijacks' = IF took THEN 1 ELSE 0
        /\ sent' = [sent EXCEPT !["up"] = IF took THEN in.buffered ELSE 0]
        /\ taken' = [taken EXCEPT !["up"] = IF took THEN in.buffered ELSE 0]
        /\ recv' = [recv EXCEPT !["down"] = IF wrote THEN <<Established>> ELSE <<>>,
                                !["up"] = IF wrote THEN Drain(in.drained) ELSE <<>>]
        /\ closes' = [e \in Endpoints |-> IF returns /\ e \in Deferred(stage) THEN 1 ELSE 0]
        /\ copyPc' = [d \in Directions |-> IF returns THEN "none" ELSE "read"]
        /\ hcPc' = IF returns THEN "done" ELSE "relay"
        /\ UNCHANGED <<peerDone, hand, nonTunnelVars>>

\* a peer writes one more byte into the tunnel
PeerSend(d) ==
    /\ hcPc = "relay"
    /\ ~peerDone[d]
    /\ sent[d] < MaxBytes
    /\ sent' = [sent EXCEPT ![d] = @ + 1]
    /\ UNCHANGED <<hcPc, hcIn, wStatus, hijacks, peerDone, taken, hand, recv, copyPc, closes,
                   nonTunnelVars>>

\* a peer closes its side: the reads of its bytes end with io.EOF
PeerClose(d) ==
    /\ hcPc = "relay"
    /\ ~peerDone[d]
    /\ peerDone' = [peerDone EXCEPT ![d] = TRUE]
    /\ UNCHANGED <<hcPc, hcIn, wStatus, hijacks, sent, taken, hand, recv, copyPc, closes,
                   nonTunnelVars>>

\* io.Copy: a Read of the source returns the next k bytes
CopyRead(d, k) ==
    /\ copyPc[d] = "read"
    /\ closes[Src(d)] = 0
    /\ k \in 1..(sent[d] - taken[d])
    /\ hand' = [hand EXCEPT ![d] = Bytes(taken[d] + 1, taken[d] + k)]
    /\ taken' = [taken EXCEPT ![d] = @ + k]
    /\ copyPc' = [copyPc EXCEPT ![d] = "write"]
    /\ UNCHANGED <<hcPc, hcIn, wStatus, hijacks, sent, peerDone, recv, closes, nonTunnelVars>>

\* io.Copy: the Write to the destination takes n of the bytes read; fewer than all
\* is a write error, which ends the copy
CopyWrite(d, n) ==
    /\ copyPc[d] = "write"
    /\ n \in 0..Len(hand[d])
    /\ recv' = [recv EXCEPT ![d] = @ \o SubSeq(hand[d], 1, n)]
    /\ hand' = [hand EXCEPT ![d] = <<>>]
    /\ copyPc' = [copyPc EXCEPT ![d] = IF n = Len(hand[d]) THEN "read" ELSE "close"]
    /\ UNCHANGED <<hcPc, hcIn, wStatus, hijacks, sent, peerDone, taken, closes, nonTunnelVars>>

\* io.Copy: the Read of the source fails and the copy returns: with io.EOF when the
\* peer closed and all its bytes are read, with net.ErrClosed when the other task
\* closed the source, or with an error of the connection
CopyEnd(d, cause) ==
    /\ copyPc[d] = "read"
    /\ cause = "eof" => peerDone[d] /\ taken[d] = sent[d]
    /\ cause = "closed" => closes[Src(d)] > 0
    /\ copyPc' = [copyPc EXCEPT ![d] = "close"]
    /\ UNCHANGED <<hcPc, hcIn, wStatus, hijacks, sent, peerDone, taken, hand, recv, closes,
                   nonTunnelVars>>

\* b.Close() and close(done) of the goroutine, a.Close() of relay itself
CopyClose(d) ==
    /\ copyPc[d] = "close"
    /\ closes' = [closes EXCEPT ![Dst(d)] = @ + 1]
    /\ copyPc' = [copyPc EXCEPT ![d] = "done"]
    /\ UNCHANGED <<hcPc, hcIn, wStatus, hijacks, sent, peerDone, taken, hand, recv,
                   nonTunnelVars>>

DoneReceived_noWait == TRUE

\* <-done
DoneReceived == copyPc["up"] = "done"

\* relay returns
relayReturn ==
    /\ hcPc = "relay"
    /\ copyPc["down"] = "done"
    /\ DoneReceived
    /\ hcPc' = "relayed"
    /\ UNCHANGED <<hcIn, wStatus, hijacks, sent, peerDone, taken, hand, recv, copyPc, closes,
                   nonTunnelVars>>

\* handleConnect returns after relay: the deferred client.Close() and upstream.Close()
handleConnectReturn ==
    /\ hcPc = "relayed"
    /\ hcPc' = "done"
    /\ closes' = [e \in Endpoints |-> closes[e] + 1]
    /\ UNCHANGED <<hcIn, wStatus, hijacks, sent, peerDone, taken, hand, recv, copyPc,
                   nonTunnelVars>>

\* what the dial of a CONNECT request can fail with
ErrDialUpstream == New("connection refused")

ErrHijack == New("http: connection has been hijacked")

ErrClientWrite == NetWrap("write tcp: ", FALSE, EPIPE)

ConnectInputs ==
    {in \in [dialErr : {Nil, ErrDialUpstream}, hijacker : BOOLEAN,
             hijackErr : {Nil, ErrHijack}, writeErr : {Nil, ErrClientWrite},
             buffered : 0..MaxBytes, drained : 0..MaxBytes] : in.drained <= in.buffered}

InitConnect ==
    /\ Forwarders = MkForwarders(ClusterNames)
    /\ Idle
    /\ ClassifyRest
    /\ ParseRest
    /\ StreamRest
    /\ ResolveRest
    /\ RetryRest
    /\ TunnelRest
    /\ ForwardRest
    /\ ShutdownRest
    /\ ConfigRest
    /\ DialPodRest
    /\ CounterRest
    /\ MonitorRest

NextConnect ==
    \/ hcPc = "idle" /\ \E in \in ConnectInputs : handleConnect(in)
    \/ \E d \in Directions : PeerSend(d)
    \/ \E d \in Directions : PeerClose(d)
    \/ \E d \in Directions, k \in 1..MaxBytes : CopyRead(d, k)
    \/ \E d \in Directions, n \in 0..MaxBytes : CopyWrite(d, n)
    \/ \E d \in Directions, cause \in {"eof", "closed", "reset"} : CopyEnd(d, cause)
    \/ \E d \in Directions : CopyClose(d)
    \/ relayReturn
    \/ handleConnectReturn

SpecConnect == InitConnect /\ [][NextConnect]_vars

(***************************************************************************)
(* SpecRelay: SpecConnect with the scheduling of relay's two tasks.  A     *)
(* task that can take its next step takes it: the Close after the copy     *)
(* runs, relay returns once both tasks are done.  A Read or a Write        *)
(* blocked on a connection that has been closed returns.  On an open       *)
(* connection a Read may block for ever, and so may a Write, since no      *)
(* deadline is set and the peers owe neither bytes nor window.             *)
(***************************************************************************)
\* the Write of the direction returns because its connection has been closed
WriteOnClosed(d) == closes[Dst(d)] > 0 /\ \E n \in 0..MaxBytes : CopyWrite(d, n)

SpecRelay ==
    /\ InitConnect
    /\ [][NextConnect]_vars
    /\ WF_vars(CopyEnd("up", "closed"))
    /\ WF_vars(CopyEnd("down", "closed"))
    /\ WF_vars(WriteOnClosed("up"))
    /\ WF_vars(WriteOnClosed("down"))
    /\ WF_vars(CopyClose("up"))
    /\ WF_vars(CopyClose("down"))
    /\ WF_vars(relayReturn)

\* the same with peers that always take what is written to them: a Write returns
SpecRelayDrained ==
    /\ SpecRelay
    /\ WF_vars(\E n \in 0..MaxBytes : CopyWrite("up", n))
    /\ WF_vars(\E n \in 0..MaxBytes : CopyWrite("down", n))

(***************************************************************************)
(* SpecForward: HTTPProxy.handleHTTP.  An http.Header is a function from   *)
(* the names of its fields to the sequences of their values.               *)
(***************************************************************************)
StatusBadRequest == 400

hopByHopHeaders_noUpgrade ==
    <<"Connection", "Proxy-Connection", "Keep-Alive", "Proxy-Authenticate",
      "Proxy-Authorization", "Te", "Trailer", "Transfer-Encoding">>

hopByHopHeaders ==
    <<"Connection", "Proxy-Connection", "Keep-Alive", "Proxy-Authenticate",
      "Proxy-Authorization", "Te", "Trailer", "Transfer-Encoding", "Upgrade">>

\* http.Header.Del
Del(h, key) == [k \in DOMAIN h \ {key} |-> h[k]]

\* http.Header.Add
Add(h, key, v) ==
    [k \in DOMAIN h \cup {key} |->
        IF k = key THEN (IF key \in DOMAIN h THEN Append(h[key], v) ELSE <<v>>) ELSE h[k]]

RECURSIVE DelFrom(_, _, _)
\* h.Del(key) for the keys from position i on
DelFrom(h, keys, i) == IF i > Len(keys) THEN h ELSE DelFrom(Del(h, keys[i]), keys, i + 1)

removeHopByHopHeaders(h) == DelFrom(h, hopByHopHeaders, 1)

RECURSIVE AddValues(_, _, _, _)
\* for _, v := range vv { w.Header().Add(k, v) }, from position i on
AddValues(wh, k, vv, i) ==
    IF i > Len(vv) THEN wh ELSE AddValues(Add(wh, k, vv[i]), k, vv, i + 1)

RECURSIVE CopyHeader(_, _, _)
\* for k, vv := range resp.Header, for the fields in todo, in the order of the map
CopyHeader(wh, h, todo) ==
    IF todo = {} THEN wh
    ELSE LET k == CHOOSE x \in todo : TRUE
         IN  CopyHeader(AddValues(wh, k, h[k], 1), h, todo \ {k})

IsAbs_always(u) == TRUE

\* url.URL.IsAbs
IsAbs(u) == u.scheme # ""

\* handleHTTP, from the request to the status line and the header of the answer
handleHTTP(req, out) ==
    LET called == IsAbs(req.url)
        answered == called /\ out.err = Nil
        stripped == removeHopByHopHeaders(out.header)
    IN  /\ fwPc = "idle"
        /\ fwPc' = "done"
        /\ fwReq' = req
        /\ fwOut' = IF called THEN out ELSE NoOutcome
        /\ outHeader' = IF called THEN removeHopByHopHeaders(req.header) ELSE NoHeader
        /\ fwCalls' = IF called THEN 1 ELSE 0
        /\ fwDials' = IF called THEN out.dialed ELSE 0
        /\ wCode' = IF ~called THEN StatusBadRequest
                    ELSE IF out.err # Nil THEN StatusBadGateway
                    ELSE out.status
        /\ wHeader' = IF answered THEN CopyHeader(NoHeader, stripped, DOMAIN stripped)
                      ELSE NoHeader
        /\ UNCHANGED nonForwardVars

\* header fields that are not hop-by-hop
EndToEndNames == {"Accept", "X-Real-Header"}

\* the values of a field of the sample headers
SampleValues(k) ==
    CASE k = "Accept" -> <<"text/html", "*/*">>
      [] k = "Connection" -> <<"keep-alive">>
      [] k = "Keep-Alive" -> <<"timeout=5">>
      [] k = "Proxy-Authenticate" -> <<"Basic">>
      [] k = "Proxy-Authorization" -> <<"Basic secret">>
      [] k = "X-Real-Header" -> <<"preserved">>
      [] OTHER -> <<"v">>

\* the hop-by-hop fields a request or a response may come with
SampleHopNames ==
    {"Connection", "Proxy-Connection", "Keep-Alive", "Proxy-Authenticate",
     "Proxy-Authorization", "Te", "Trailer", "Transfer-Encoding", "Upgrade"}

\* no hop-by-hop field, one of them, or all of them
HopSamples == {{}} \cup {{k} : k \in SampleHopNames} \cup {SampleHopNames}

SampleHeaders ==
    {[k \in hop \cup ete |-> SampleValues(k)] : hop \in HopSamples, ete \in SUBSET EndToEndNames}

ForwardRequests ==
    {[url |-> u, header |-> h] :
        u \in {[scheme |-> "http", host |-> "db.prod", path |-> "/test"],
               [scheme |-> "", host |-> "", path |-> "/relative"]},
        h \in SampleHeaders}

\* what RoundTrip returns: a failed dial, a failure on a pooled connection, or a
\* response over a new or a pooled connection
ForwardOutcomes ==
    {[err |-> ErrDialUpstream, dialed |-> 1, status |-> 0, header |-> NoHeader],
     [err |-> EPIPE, dialed |-> 0, status |-> 0, header |-> NoHeader]}
        \cup {[err |-> Nil, dialed |-> n, status |-> s, header |-> h] :
                n \in {0, 1}, s \in {200, 404}, h \in SampleHeaders}

InitForward ==
    /\ Forwarders = MkForwarders(ClusterNames)
    /\ Idle
    /\ ClassifyRest
    /\ ParseRest
    /\ StreamRest
    /\ ResolveRest
    /\ RetryRest
    /\ TunnelRest
    /\ ForwardRest
    /\ ShutdownRest
    /\ ConfigRest
    /\ DialPodRest
    /\ CounterRest
    /\ MonitorRest

NextForward ==
    fwPc = "idle" /\ \E req \in ForwardRequests, out \in ForwardOutcomes : handleHTTP(req, out)

SpecForward == InitForward /\ [][NextForward]_vars

(***************************************************************************)
(* SpecShutdown: main from the start of its servers to its return, the     *)
(* goroutines of gracefulShutdown, and the connections of the HTTP         *)
(* servers.  The return of main ends the process and with it every         *)
(* goroutine and every open connection.                                    *)
(***************************************************************************)
\* the process is alive
Alive == mainPc = "serving"

\* the connections of server s that are being served
ActiveConns(s) == {c \in Conns : connSrv[c] = s /\ connSt[c] = "active"}

\* ListenAndServe of server s accepts a connection; Shutdown closes the listener
Accept(c, s) ==
    /\ Alive
    /\ shutPc[s] = "waiting"
    /\ connSt[c] = "none"
    /\ connSt' = [connSt EXCEPT ![c] = "active"]
    /\ connSrv' = [connSrv EXCEPT ![c] = s]
    /\ UNCHANGED <<rootDone, mainPc, shutPc, nonShutdownVars>>

\* the handler of a connection comes to its end
Complete(c) ==
    /\ Alive
    /\ connSt[c] = "active"
    /\ connSt' = [connSt EXCEPT ![c] = "completed"]
    /\ UNCHANGED <<rootDone, mainPc, shutPc, connSrv, nonShutdownVars>>

\* SIGINT or SIGTERM arrives, or a failed server calls stop()
Signal ==
    /\ Alive
    /\ ~rootDone
    /\ rootDone' = TRUE
    /\ UNCHANGED <<mainPc, shutPc, connSt, connSrv, nonShutdownVars>>

\* gracefulShutdown: <-ctx.Done() returns and server.Shutdown is called
ShutdownStart(s) ==
    /\ Alive
    /\ rootDone
    /\ shutPc[s] = "waiting"
    /\ shutPc' = [shutPc EXCEPT ![s] = "shutdown"]
    /\ UNCHANGED <<rootDone, mainPc, connSt, connSrv, nonShutdownVars>>

\* server.Shutdown returns: no connection of the server is active any more, or
\* the five seconds of shutdownCtx are over
ShutdownReturn(s, timeout) ==
    /\ Alive
    /\ shutPc[s] = "shutdown"
    /\ ~timeout => ActiveConns(s) = {}
    /\ shutPc' = [shutPc EXCEPT ![s] = "returned"]
    /\ UNCHANGED <<rootDone, mainPc, connSt, connSrv, nonShutdownVars>>

\* main: <-ctx.Done() returns, "shutting down" is logged and main returns
MainReturn ==
    /\ Alive
    /\ rootDone
    /\ mainPc' = "exited"
    /\ connSt' = [c \in Conns |-> IF connSt[c] = "active" THEN "killed" ELSE connSt[c]]
    /\ UNCHANGED <<rootDone, shutPc, connSrv, nonShutdownVars>>

InitShutdown ==
    /\ Forwarders = MkForwarders(ClusterNames)
    /\ Idle
    /\ ClassifyRest
    /\ ParseRest
    /\ StreamRest
    /\ ResolveRest
    /\ RetryRest
    /\ TunnelRest
    /\ ForwardRest
    /\ ShutdownRest
    /\ ConfigRest
    /\ DialPodRest
    /\ CounterRest
    /\ MonitorRest

NextShutdown ==
    \/ \E c \in Conns, s \in Servers : Accept(c, s)
    \/ \E c \in Conns : Complete(c)
    \/ Signal
    \/ \E s \in Servers : ShutdownStart(s)
    \/ \E s \in Servers, timeout \in BOOLEAN : ShutdownReturn(s, timeout)
    \/ MainReturn

SpecShutdown == InitShutdown /\ [][NextShutdown]_vars

(***************************************************************************)
(* SpecConfig: config.LoadConfig (Validate, resolveKubeconfigs,            *)
(* ValidateClusters) and the forwarders map main builds from its result.   *)
(* A kubeconfig file is the map of its contexts, name to namespace; Go     *)
(* ranges over a map in an order of its own, which is an input here.       *)
(***************************************************************************)
HomeDir == "/home/u"

HasPrefix(s, prefix) == Len(s) >= Len(prefix) /\ SubSeq(s, 1, Len(prefix)) = prefix

\* strings.TrimSpace, for spaces
RECURSIVE TrimSpace(_)
TrimSpace(s) ==
    IF Len(s) > 0 /\ Char(s, 1) = " " THEN TrimSpace(SubSeq(s, 2, Len(s)))
    ELSE IF Len(s) > 0 /\ Char(s, Len(s)) = " " THEN TrimSpace(SubSeq(s, 1, Len(s) - 1))
    ELSE s

expandTilde(path) ==
    IF ~HasPrefix(path, "~") THEN path
    ELSE IF Len(path) > 1 /\ Char(path, 2) # "/" THEN path
    ELSE IF path = "~" THEN HomeDir
    ELSE HomeDir \o "/" \o SubSeq(path, 3, Len(path))

\* defaultKubeconfigPathFunc()
DefaultKubeconfigPath == expandTilde("~/.kube/config")

\* the kubeconfig files of the machine and the contexts of each
KubeFiles ==
    [p \in {DefaultKubeconfigPath, "/kc/a.yaml", "/kc/b.yaml", "/kc/dot.yaml", "/kc/anon.yaml"} |->
        CASE p = DefaultKubeconfigPath -> [n \in {"prod"} |-> ""]
          [] p = "/kc/a.yaml" -> [n \in {"prod", "dev"} |-> IF n = "prod" THEN "apps" ELSE ""]
          [] p = "/kc/b.yaml" -> [n \in {"stage"} |-> "web"]
          [] p = "/kc/dot.yaml" -> [n \in {"my.cluster"} |-> ""]
          [] p = "/kc/anon.yaml" -> [n \in {""} |-> ""]]

\* os.Stat and clientcmd.LoadFromFile succeed on the path
Readable(p, in) == p \in DOMAIN KubeFiles /\ (p = DefaultKubeconfigPath => in.defaultExists)

ErrNotExist == Leaf("ENOENT", "no such file or directory", FALSE, FALSE)

ErrBadPattern == Leaf("ErrBadPattern", "syntax error in pattern", FALSE, FALSE)

\* the orders in which a range over the elements of S can go
Orderings(S) ==
    {q \in [1..Cardinality(S) -> S] : \A i, j \in 1..Cardinality(S) : q[i] = q[j] => i = j}

\* for each file, an order of the range over kubeCfg.Contexts
ContextOrders ==
    {o \in [DOMAIN KubeFiles -> UNION {Orderings(DOMAIN KubeFiles[p]) : p \in DOMAIN KubeFiles}] :
        \A p \in DOMAIN KubeFiles : o[p] \in Orderings(DOMAIN KubeFiles[p])}

\* the clusters of the contexts of a file, in the order names of the range
FileClusters(path, names) ==
    [i \in 1..Len(names) |->
        [Name |-> names[i], Kubeconfig |-> path, Context |-> names[i],
         Namespace |-> IF KubeFiles[path][names[i]] = "" THEN "default"
                       ELSE KubeFiles[path][names[i]]]]

\* loadKubeconfigFile, on the state st of resolveKubeconfigs: its clusters, the
\* seen map, the first error, and the files parsed so far
loadKubeconfigFile(st, path, ord, in) ==
    IF st.err # Nil THEN st
    ELSE IF path \in st.seen THEN st
    ELSE IF ~Readable(path, in)
    THEN [st EXCEPT !.seen = @ \cup {path},
                    !.err = Errorf("loading kubeconfig " \o Quote(path) \o ": ", ErrNotExist)]
    ELSE [st EXCEPT !.seen = @ \cup {path},
                    !.loaded = Append(@, path),
                    !.clusters = @ \o FileClusters(path, ord[path])]

RECURSIVE LoadPaths(_, _, _, _, _)
\* loadKubeconfigFile for the paths from position i on
LoadPaths(st, paths, i, ord, in) ==
    IF i > Len(paths) THEN st
    ELSE LoadPaths(loadKubeconfigFile(st, paths[i], ord, in), paths, i + 1, ord, in)

\* strings.ContainsAny(pattern, "*?[")
IsGlob(pattern) == \E c \in {"*", "?", "["} : Positions(pattern, c) # {}

\* filepath.Glob and sort.Strings, on the files of the machine
Glob(pattern) ==
    CASE pattern = "/kc/[ab].yaml" -> [err |-> Nil, paths |-> <<"/kc/a.yaml", "/kc/b.yaml">>]
      [] pattern = "/kc/[" -> [err |-> ErrBadPattern, paths |-> <<>>]
      [] OTHER -> [err |-> Nil, paths |-> <<>>]

expandGlobPattern(pattern) ==
    IF ~IsGlob(pattern) THEN [err |-> Nil, paths |-> <<pattern>>]
    ELSE IF Glob(pattern).err # Nil
    THEN [err |-> Errorf("invalid glob pattern " \o Quote(pattern) \o ": ", Glob(pattern).err),
          paths |-> <<>>]
    ELSE Glob(pattern)

\* the paths of KUBECONFIG: split at the list separator, trimmed, expanded, the
\* empty ones left out
EnvPaths(env) ==
    LET parts == Split(env, ":")
        clean == [i \in 1..Len(parts) |-> expandTilde(TrimSpace(parts[i]))]
    IN  SelectSeq(clean, LAMBDA p : p # "")

RECURSIVE LoadPatterns(_, _, _, _, _)
\* phase 3 of resolveKubeconfigs, for the patterns from position i on
LoadPatterns(st, patterns, i, ord, in) ==
    IF i > Len(patterns) \/ st.err # Nil THEN st
    ELSE LET g == expandGlobPattern(expandTilde(patterns[i]))
         IN  IF g.err # Nil THEN [st EXCEPT !.err = g.err]
             ELSE LoadPatterns(LoadPaths(st, g.paths, 1, ord, in), patterns, i + 1, ord, in)

resolveKubeconfigs(in, ord) ==
    LET st0 == [clusters |-> <<>>, seen |-> {}, err |-> Nil, loaded |-> <<>>]
        st1 == IF in.SkipDefaultKubeconfig \/ ~Readable(DefaultKubeconfigPath, in) THEN st0
               ELSE loadKubeconfigFile(st0, DefaultKubeconfigPath, ord, in)
        st2 == IF in.SkipKubeconfigEnv \/ in.KUBECONFIG = "" THEN st1
               ELSE LoadPaths(st1, EnvPaths(in.KUBECONFIG), 1, ord, in)
    IN  LoadPatterns(st2, in.Kubeconfigs, 1, ord, in)

RECURSIVE ValidateFrom(_, _, _)
\* the loop of ValidateClusters from position i on; names is its map of names
ValidateFrom(clusters, i, names) ==
    IF i > Len(clusters) THEN Nil
    ELSE IF clusters[i].Name = "" THEN New("cluster name must not be empty")
    ELSE IF Contains(clusters[i].Name, ".")
    THEN New("cluster name " \o Quote(clusters[i].Name) \o " must not contain dots")
    ELSE IF clusters[i].Name \in names
    THEN New("duplicate cluster name " \o Quote(clusters[i].Name))
    ELSE ValidateFrom(clusters, i + 1, names \cup {clusters[i].Name})

RECURSIVE ValidateFrom_noDuplicates(_, _, _)
ValidateFrom_noDuplicates(clusters, i, names) ==
    IF i > Len(clusters) THEN Nil
    ELSE IF clusters[i].Name = "" THEN New("cluster name must not be empty")
    ELSE IF Contains(clusters[i].Name, ".")
    THEN New("cluster name " \o Quote(clusters[i].Name) \o " must not contain dots")
    ELSE ValidateFrom_noDuplicates(clusters, i + 1, names \cup {clusters[i].Name})

ValidateClusters_noDuplicates(clusters) ==
    IF Len(clusters) = 0 THEN New("at least one cluster is required")
    ELSE ValidateFrom_noDuplicates(clusters, 1, {})

ValidateClusters(clusters) ==
    IF Len(clusters) = 0 THEN New("at least one cluster is required")
    ELSE ValidateFrom(clusters, 1, {})

\* net.SplitHostPort fails on the listen address
BadListenAddress(field, a) ==
    IF SplitHostPort(a).ok THEN Nil
    ELSE Errorf("invalid " \o field \o " " \o Quote(a) \o ": ", AddrError(a, SplitHostPort(a).why))

\* Config.Validate
Validate(c) ==
    IF BadListenAddress("listenAddress", c.ListenAddress) # Nil
    THEN BadListenAddress("listenAddress", c.ListenAddress)
    ELSE IF c.HTTPListenAddress # "" /\ BadListenAddress("httpListenAddress", c.HTTPListenAddress) # Nil
    THEN BadListenAddress("httpListenAddress", c.HTTPListenAddress)
    ELSE IF c.PACListenAddress # ""
    THEN BadListenAddress("pacListenAddress", c.PACListenAddress)
    ELSE Nil

\* LoadConfig: the clusters and the error it returns and the files it parsed
LoadConfigResult(in, ord) ==
    LET st == resolveKubeconfigs(in, ord)
        failed(e) == [clusters |-> <<>>, err |-> e, loaded |-> <<>>]
    IN  IF in.yamlErr # Nil THEN failed(Errorf("parsing config file: ", in.yamlErr))
        ELSE IF Validate(in) # Nil THEN failed(Errorf("invalid config: ", Validate(in)))
        ELSE IF st.err # Nil
        THEN [clusters |-> <<>>, err |-> Errorf("resolving kubeconfigs: ", st.err),
              loaded |-> st.loaded]
        ELSE IF ValidateClusters(st.clusters) # Nil
        THEN [clusters |-> <<>>, err |-> Errorf("invalid config: ", ValidateClusters(st.clusters)),
              loaded |-> st.loaded]
        ELSE [clusters |-> st.clusters, err |-> Nil, loaded |-> st.loaded]

\* main calls config.LoadConfig and exits when it fails
LoadConfig(in, ord) ==
    LET r == LoadConfigResult(in, ord)
    IN  /\ cfgPc = "idle"
        /\ cfgIn' = in
        /\ cfgLoaded' = r.loaded
        /\ cfgRet' = [clusters |-> r.clusters, err |-> r.err]
        /\ cfgPc' = IF r.err # Nil THEN "exit" ELSE "loaded"
        /\ UNCHANGED <<cfgTable, nonConfigVars>>

\* main builds the forwarders map: a cluster whose kube.NewKubeClient fails is
\* left out, and main exits when none is left
NewForwarders(failing) ==
    LET names == {cfgRet.clusters[i].Name : i \in 1..Len(cfgRet.clusters)}
    IN  /\ cfgPc = "loaded"
        /\ failing \subseteq names
        /\ cfgTable' = names \ failing
        /\ cfgPc' = IF names \ failing = {} THEN "exit" ELSE "serving"
        /\ UNCHANGED <<cfgIn, cfgLoaded, cfgRet, nonConfigVars>>

\* the entries KUBECONFIG may hold
EnvParts == {"/kc/a.yaml", " /kc/b.yaml", "", "~/.kube/config", "/kc/missing.yaml"}

\* the entries the kubeconfigs field may hold
ListPatterns == {"/kc/[ab].yaml", "/kc/dot.yaml", "/kc/anon.yaml", "/kc/["}

\* the sequences of at most n elements of S
SeqsUpTo(S, n) == UNION {[1..k -> S] : k \in 0..n}

ServingConfig ==
    [NoConfig EXCEPT !.ListenAddress = "127.0.0.1:9080", !.HTTPListenAddress = "127.0.0.1:8080"]

\* the configurations LoadConfig may find: every kubeconfig discovery under valid
\* listen addresses, and the failures of the steps before the discovery
ConfigInputs ==
    {[ServingConfig EXCEPT !.SkipDefaultKubeconfig = sd, !.SkipKubeconfigEnv = se,
                           !.defaultExists = de, !.KUBECONFIG = Join(env, ":"),
                           !.Kubeconfigs = list] :
        sd \in BOOLEAN, se \in BOOLEAN, de \in BOOLEAN,
        env \in SeqsUpTo(EnvParts, MaxPaths), list \in SeqsUpTo(ListPatterns, MaxPaths)}
    \cup {[ServingConfig EXCEPT !.yamlErr = New("yaml: line 1: did not find expected key")],
          [ServingConfig EXCEPT !.ListenAddress = "not-a-valid-address"],
          [ServingConfig EXCEPT !.HTTPListenAddress = "8080"],
          [ServingConfig EXCEPT !.PACListenAddress = "1:2:3"]}

InitConfig ==
    /\ Forwarders = MkForwarders(ClusterNames)
    /\ Idle
    /\ ClassifyRest
    /\ ParseRest
    /\ StreamRest
    /\ ResolveRest
    /\ RetryRest
    /\ TunnelRest
    /\ ForwardRest
    /\ ShutdownRest
    /\ ConfigRest
    /\ DialPodRest
    /\ CounterRest
    /\ MonitorRest

NextConfig ==
    \/ cfgPc = "idle" /\ \E in \in ConfigInputs, ord \in ContextOrders : LoadConfig(in, ord)
    \/ \E failing \in SUBSET {"prod", "dev", "stage"} : NewForwarders(failing)

SpecConfig == InitConfig /\ [][NextConfig]_vars

(***************************************************************************)
(* SpecDialPod: PortForwarder.dialPod, from the SPDY round tripper to the  *)
(* StreamConn over the two streams of the session.                         *)
(***************************************************************************)
\* http.Header.Set
Set(h, key, v) == [k \in DOMAIN h \cup {key} |-> IF k = key THEN <<v>> ELSE h[k]]

\* the headers of the error stream: Streamtype, Port and Requestid
ErrorStreamHeaders(port) ==
    Set(Set(Set(NoHeader, "Streamtype", "error"), "Port", Itoa(port)), "Requestid", "0")

\* headers.Set("Streamtype", "data") on the same headers
DataStreamHeaders(port) == Set(ErrorStreamHeaders(port), "Streamtype", "data")

CloseAfterDataFailure_sessionOnly == <<"session">>

\* what dialPod closes when the data stream cannot be created
CloseAfterDataFailure == <<"error", "session">>

\* what dialPod closes when the error stream cannot be created
CloseAfterErrorFailure == <<"session">>

\* how far dialPod gets: the call that fails, or "conn"
DialPodStage(in) ==
    IF in.rtErr # Nil THEN "roundtripper"
    ELSE IF in.dialErr # Nil THEN "dial"
    ELSE IF in.errStreamErr # Nil THEN "error"
    ELSE IF in.dataStreamErr # Nil THEN "data"
    ELSE "conn"

\* the CreateStream calls of dialPod, in order: the headers and the outcome of each
CreatedStreams(in) ==
    LET stage == DialPodStage(in)
        es == [headers |-> ErrorStreamHeaders(in.port), err |-> in.errStreamErr]
        ds == [headers |-> DataStreamHeaders(in.port), err |-> in.dataStreamErr]
    IN  CASE stage \in {"roundtripper", "dial"} -> <<>>
          [] stage = "error" -> <<es>>
          [] OTHER -> <<es, ds>>

\* what a session holds open after the closes: a closed session has no open stream
StillOpen(opened, closedSeq) ==
    LET gone == {closedSeq[i] : i \in 1..Len(closedSeq)}
    IN  IF "session" \in gone THEN {} ELSE opened \ gone

dialPod(in) ==
    LET stage == DialPodStage(in)
        opened == CASE stage \in {"roundtripper", "dial"} -> {}
                    [] stage = "error" -> {"session"}
                    [] stage = "data" -> {"session", "error"}
                    [] OTHER -> {"session", "error", "data"}
        closing == CASE stage = "error" -> CloseAfterErrorFailure
                     [] stage = "data" -> CloseAfterDataFailure
                     [] OTHER -> <<>>
    IN  /\ dpPc = "idle"
        /\ dpPc' = "done"
        /\ dpIn' = in
        /\ dpCreated' = CreatedStreams(in)
        /\ dpClosed' = closing
        /\ dpOpen' = StillOpen(opened, closing)
        /\ dpRet' =
              CASE stage = "roundtripper" ->
                     [conn |-> "nil", err |-> Errorf("creating SPDY round tripper: ", in.rtErr)]
                [] stage = "dial" ->
                     [conn |-> "nil",
                      err |-> Errorf("SPDY dial to " \o in.ns \o "/" \o in.pod \o ": ", in.dialErr)]
                [] stage = "error" ->
                     [conn |-> "nil", err |-> Errorf("creating error stream: ", in.errStreamErr)]
                [] stage = "data" ->
                     [conn |-> "nil", err |-> Errorf("creating data stream: ", in.dataStreamErr)]
                [] OTHER ->
                     [conn |-> in.ns \o "/" \o in.pod \o ":" \o Itoa(in.port), err |-> Nil]
        /\ UNCHANGED nonDialPodVars

ErrStreamRefused == New("stream refused")

DialPodInputs ==
    [ns : {"default", "apps"}, pod : {"db-0", "web-1"}, port : {1, 80, 5432, MaxPort},
     rtErr : {Nil, New("no Auth Provider found")}, dialErr : {Nil, ECONNREFUSED},
     errStreamErr : {Nil, ErrStreamRefused}, dataStreamErr : {Nil, ErrStreamRefused}]

InitDialPod ==
    /\ Forwarders = MkForwarders(ClusterNames)
    /\ Idle
    /\ ClassifyRest
    /\ ParseRest
    /\ StreamRest
    /\ ResolveRest
    /\ RetryRest
    /\ TunnelRest
    /\ ForwardRest
    /\ ShutdownRest
    /\ ConfigRest
    /\ DialPodRest
    /\ CounterRest
    /\ MonitorRest

NextDialPod == dpPc = "idle" /\ \E in \in DialPodInputs : dialPod(in)

SpecDialPod == InitDialPod /\ [][NextDialPod]_vars

(***************************************************************************)
(* monitorErrors statement by statement.  io.ReadAll reads the error       *)
(* stream through io.LimitReader until the reader reports the end: the     *)
(* remote side closed the stream and all it wrote is read, the stream      *)
(* failed, the limit is used up, or the SPDY session was closed under the  *)
(* read.  Then the function runs the statements of MonitorProgram.  The    *)
(* mutex is free whenever the monitor asks for it in that order, since     *)
(* Read takes it only after errDone is closed.                             *)
(***************************************************************************)
\* spdyConn.Close() has run: the streams of the session are torn down
SessionClosed == \E i \in 1..Len(closed) : closed[i] = "spdy"

\* the remote side writes to the error stream
RemoteSend(s) ==
    /\ esEnd = "open"
    /\ ~SessionClosed
    /\ esSends < MaxSends
    /\ esSends' = esSends + 1
    /\ esPending' = esPending \o s
    /\ UNCHANGED <<esEnd, monBuf, monOut, nonMonitorVars>>

\* the remote side closes the error stream, or the stream fails
RemoteEnd(how) ==
    /\ esEnd = "open"
    /\ ~SessionClosed
    /\ esEnd' = how
    /\ UNCHANGED <<esPending, esSends, monBuf, monOut, nonMonitorVars>>

\* one Read of the LimitReader inside io.ReadAll: at most k bytes, at most what
\* the stream holds, at most what is left of the limit
MonitorRead(k) ==
    LET n == SetMin({k, Len(esPending), maxErrorBytes - Len(monBuf)})
    IN  /\ monPc = "reading"
        /\ n > 0
        /\ monBuf' = monBuf \o SubSeq(esPending, 1, n)
        /\ esPending' = SubSeq(esPending, n + 1, Len(esPending))
        /\ UNCHANGED <<esEnd, esSends, monOut, nonMonitorVars>>

ErrStreamReset == New("stream reset")

\* what io.ReadAll can return now: the LimitReader reports io.EOF when the limit
\* is used up, the stream reports io.EOF after the last byte of a stream the
\* remote side closed, a failed stream reports its error, and a Read on a
\* stream of a closed session ends with io.EOF or with an error
ReadAllOutcomes ==
    (IF Len(monBuf) >= maxErrorBytes \/ (esEnd = "eof" /\ esPending = "")
     THEN {[buf |-> monBuf, err |-> Nil]} ELSE {})
    \cup (IF esEnd = "failed" THEN {[buf |-> monBuf, err |-> ECONNRESET]} ELSE {})
    \cup (IF SessionClosed
          THEN {[buf |-> monBuf, err |-> Nil], [buf |-> monBuf, err |-> ErrStreamReset]}
          ELSE {})

\* a statement of MonitorProgram: the store changes remoteErr, the close of
\* errDone changes what ErrDoneClosed says
Executed(stmt, out) == IF stmt = "store" THEN RemoteErrOf(out.buf, out.err, remoteErr) ELSE remoteErr

\* io.ReadAll returns and the monitor executes its first statement
MonitorFirst(out) ==
    /\ monPc = "reading"
    /\ monPc' = "finishing"
    /\ monOut' = out
    /\ remoteErr' = Executed(MonitorProgram[1], out)
    /\ UNCHANGED <<once, closePc, closeErr, closed, closeOuts, closeRets, readPc, readOwn,
                   readVia, readRet, esPending, esEnd, esSends, monBuf, besidesStreamVars>>

\* the monitor executes its second statement and ends
MonitorSecond ==
    /\ monPc = "finishing"
    /\ monPc' = "done"
    /\ remoteErr' = Executed(MonitorProgram[2], monOut)
    /\ UNCHANGED <<once, closePc, closeErr, closed, closeOuts, closeRets, readPc, readOwn,
                   readVia, readRet, esPending, esEnd, esSends, monBuf, monOut,
                   besidesStreamVars>>

(***************************************************************************)
(* SpecMonitor: one StreamConn with its monitor, one goroutine that calls  *)
(* Read and one that calls Close, and the remote side of the error stream. *)
(* SpecTeardown: the same without the Read calls, and with the scheduling  *)
(* of the goroutines: the monitor reads what is there and goes on when     *)
(* ReadAll can return, and Close goes through its three operations.        *)
(***************************************************************************)
\* a message of 4096 bytes
LongMessage == Rep("0123456789abcdef", 256)

ErrorChunks == {"pod not found", LongMessage}

\* len(p) of a Read of io.ReadAll: its first buffer, and a grown one
ReadSizes == {512, 8192}

MonitorDataReads == {[n |-> 2, err |-> Nil], [n |-> 0, err |-> EOF]}

InitMonitor ==
    /\ Forwarders = MkForwarders(ClusterNames)
    /\ Idle
    /\ ClassifyRest
    /\ ParseRest
    /\ StreamRest
    /\ ResolveRest
    /\ RetryRest
    /\ TunnelRest
    /\ ForwardRest
    /\ ShutdownRest
    /\ ConfigRest
    /\ DialPodRest
    /\ CounterRest
    /\ MonitorRest

NextMonitor ==
    \/ \E s \in ErrorChunks : RemoteSend(s)
    \/ \E how \in {"eof", "failed"} : RemoteEnd(how)
    \/ \E k \in ReadSizes : MonitorRead(k)
    \/ \E out \in ReadAllOutcomes : MonitorFirst(out)
    \/ MonitorSecond
    \/ CloseCall(1)
    \/ CloseData(1, Nil)
    \/ CloseErrorStream(1, Nil)
    \/ CloseSpdy(1, Nil)
    \/ CloseReturn(1)
    \/ \E out \in MonitorDataReads : ReadData(out)
    \/ ReadErrDone
    \/ ReadTimeout
    \/ ReadReturn

SpecMonitor == InitMonitor /\ [][NextMonitor]_vars

NextTeardown ==
    \/ \E s \in ErrorChunks : RemoteSend(s)
    \/ \E how \in {"eof", "failed"} : RemoteEnd(how)
    \/ \E k \in ReadSizes : MonitorRead(k)
    \/ \E out \in ReadAllOutcomes : MonitorFirst(out)
    \/ MonitorSecond
    \/ CloseCall(1)
    \/ CloseData(1, Nil)
    \/ CloseErrorStream(1, Nil)
    \/ CloseSpdy(1, Nil)
    \/ CloseReturn(1)

SpecTeardown ==
    /\ InitMonitor
    /\ [][NextTeardown]_vars
    /\ WF_vars(\E k \in ReadSizes : MonitorRead(k))
    /\ WF_vars(\E out \in ReadAllOutcomes : MonitorFirst(out))
    /\ WF_vars(MonitorSecond)
    /\ WF_vars(CloseData(1, Nil))
    /\ WF_vars(CloseErrorStream(1, Nil))
    /\ WF_vars(CloseSpdy(1, Nil))

(***************************************************************************)
(* The byte counters of StreamConn.  Read and Write add what the data      *)
(* stream returned to an atomic counter, whatever the error; several       *)
(* goroutines may be in Read and in Write at once.  A call is modelled in  *)
(* three steps: the stream operation returns, the counter is updated, the  *)
(* call returns (for a Read that saw io.EOF, after its select).            *)
(***************************************************************************)
IoTasks == {"r1", "r2", "w1", "w2"}

IsRead(t) == t \in {"r1", "r2"}

\* a counter updated by a load and a later store
AtomicAdd_loadStore(cur, seen, n) == seen + n

\* atomic.Int64.Add: cur is the counter now, seen what it was when the stream
\* operation returned
AtomicAdd(cur, seen, n) == cur + n

\* n, err := sc.dataStream.Read(b) or Write(b) returns
IoCall(t, out) ==
    /\ ioPc[t] = "idle"
    /\ ioRet.calls + Cardinality({u \in IoTasks : ioPc[u] # "idle"}) < MaxIoCalls
    /\ ioPc' = [ioPc EXCEPT ![t] = "add"]
    /\ ioGot' = [ioGot EXCEPT ![t] = out]
    /\ ioSeen' = [ioSeen EXCEPT ![t] = IF IsRead(t) THEN bytesRead ELSE bytesWritten]
    /\ UNCHANGED <<bytesRead, bytesWritten, ioRet, nonCounterVars>>

\* sc.bytesRead.Add(int64(n)) or sc.bytesWritten.Add(int64(n))
IoAdd(t) ==
    /\ ioPc[t] = "add"
    /\ ioPc' = [ioPc EXCEPT ![t] = "ret"]
    /\ IF IsRead(t)
       THEN /\ bytesRead' = AtomicAdd(bytesRead, ioSeen[t], ioGot[t].n)
            /\ UNCHANGED bytesWritten
       ELSE /\ bytesWritten' = AtomicAdd(bytesWritten, ioSeen[t], ioGot[t].n)
            /\ UNCHANGED bytesRead
    /\ UNCHANGED <<ioGot, ioSeen, ioRet, nonCounterVars>>

\* return n, err (or n, remoteErr)
IoReturn(t) ==
    /\ ioPc[t] = "ret"
    /\ ioPc' = [ioPc EXCEPT ![t] = "idle"]
    /\ ioRet' = [ioRet EXCEPT !.calls = @ + 1,
                              !.read = IF IsRead(t) THEN @ + ioGot[t].n ELSE @,
                              !.written = IF IsRead(t) THEN @ ELSE @ + ioGot[t].n]
    /\ UNCHANGED <<bytesRead, bytesWritten, ioGot, ioSeen, nonCounterVars>>

\* what the data stream returns to a Read and to a Write
IoOutcomes(t) ==
    IF IsRead(t)
    THEN {[n |-> 1, err |-> Nil], [n |-> 0, err |-> EOF], [n |-> 3, err |-> ECONNRESET]}
    ELSE {[n |-> 3, err |-> Nil], [n |-> 0, err |-> EPIPE], [n |-> 1, err |-> EPIPE]}

InitCounters ==
    /\ Forwarders = MkForwarders(ClusterNames)
    /\ Idle
    /\ ClassifyRest
    /\ ParseRest
    /\ StreamRest
    /\ ResolveRest
    /\ RetryRest
    /\ TunnelRest
    /\ ForwardRest
    /\ ShutdownRest
    /\ ConfigRest
    /\ DialPodRest
    /\ CounterRest
    /\ MonitorRest

NextCounters ==
    \/ \E t \in IoTasks : \E out \in IoOutcomes(t) : IoCall(t, out)
    \/ \E t \in IoTasks : IoAdd(t)
    \/ \E t \in IoTasks : IoReturn(t)

SpecCounters == InitCounters /\ [][NextCounters]_vars

(***************************************************************************)
(* The claims.  What a claim says of an address is read off the address    *)
(* itself, by the operators below, not by the router's code.               *)
(***************************************************************************)
\* an address of the form host:port
HasPort(a) == Positions(a, ":") # {}

HostOf(a) == SubSeq(a, 1, SetMax(Positions(a, ":")) - 1)

PortOf(a) == SubSeq(a, SetMax(Positions(a, ":")) + 1, Len(a))

\* the host without a trailing .svc.cluster.local and then without a trailing .svc
StrippedHost(a) == TrimSuffix(TrimSuffix(HostOf(a), ".svc.cluster.local"), ".svc")

NumLabels(h) == Cardinality(Positions(h, ".")) + 1

LastLabel(h) ==
    IF Positions(h, ".") = {} THEN h ELSE SubSeq(h, SetMax(Positions(h, ".")) + 1, Len(h))

\* the address names a known cluster
NamesCluster(a) ==
    /\ HasPort(a)
    /\ NumLabels(StrippedHost(a)) >= 2
    /\ LastLabel(StrippedHost(a)) \in DOMAIN Forwarders

\* the call is in dialTarget, or has returned from it
InDialTarget == pc # "idle" /\ forwarder # ""

\* the attempts the call has made so far
Attempts == attempt + 1

\* C1: DialContext takes the Kubernetes path (ParseTarget, then the dialTarget of
\* the forwarder of the matched cluster, no direct TCP dial) exactly when the
\* host, stripped of .svc.cluster.local and then of .svc, has at least 2 labels
\* and its last label is a key of the router table; in every other case it makes
\* exactly one direct TCP dial to the unmodified address and calls neither the
\* resolver nor the pod dialer.
C1_RouterDispatch ==
    pc # "idle" =>
        IF NamesCluster(addr)
        THEN /\ calls.parse = 1
             /\ calls.tcp = 0
             /\ forwarder \in {"", LastLabel(StrippedHost(addr))}
             /\ forwarder = "" => (pc = "done" /\ ret.err # Nil)
             /\ (calls.resolve > 0 \/ calls.dial > 0) => forwarder = LastLabel(StrippedHost(addr))
        ELSE /\ calls = [NoCalls EXCEPT !.tcp = 1]
             /\ forwarder = ""
             /\ pc = "done"
             /\ lastCall.op = "tcp"
             /\ lastCall.name = addr

\* C1 witness: an address with the long DNS suffix reached the pod dialer of its cluster
C1_Witness ==
    /\ pc = "done"
    /\ addr = "db.prod.svc.cluster.local:80"
    /\ forwarder = "prod"
    /\ calls.dial = 1
    /\ calls.tcp = 0

\* C2: when the last label names a known cluster but ParseTarget fails (more than
\* 4 labels after suffix stripping, a non-numeric or an out-of-range port),
\* DialContext returns the parse error and makes no direct TCP dial, no service
\* resolution and no pod dial.
C2_NoPassthroughFallback ==
    (pc # "idle" /\ NamesCluster(addr)) =>
        /\ (NumLabels(StrippedHost(addr)) > 4 \/ PortOf(addr) \in {"http", "0", ""})
              => ParseTarget(addr).err # Nil
        /\ ParseTarget(addr).err # Nil =>
              /\ pc = "done"
              /\ ret = [conn |-> NoConn, err |-> ParseTarget(addr).err]
              /\ calls = [NoCalls EXCEPT !.parse = 1]
              /\ lastCall = NoCall

\* C2 witness: a five-label address of a known cluster was refused
C2_Witness ==
    /\ pc = "done"
    /\ addr = "db.db.db.db.prod:80"
    /\ "prod" \in DOMAIN Forwarders
    /\ ret.err = New("unsupported address format " \o Quote("db.db.db.db.prod")
                     \o ": expected 2-4 dot-separated components")
    /\ calls.tcp = 0

\* C3: dialTarget makes at most 6 attempts: at most 6 pod-dialer calls and at most
\* 6 resolver calls, an attempt that fails at resolution counting as one of the 6
\* without a pod dial; when every attempt fails with a retriable error (and the
\* context stays live) it fails after exactly 6 attempts with the error of the
\* last attempt.
C3_AtMostSixAttempts ==
    InDialTarget =>
        /\ Attempts <= 6
        /\ calls.dial <= 6
        /\ calls.resolve <= 6
        /\ calls.resolve <= Attempts
        /\ calls.dial + calls.resolveFailed <= Attempts
        /\ (pc = "done" /\ ctxErr = Nil /\ lastCall.err # Nil /\ isRetriableError(lastCall.err))
              => /\ Attempts = 6
                 /\ calls.dial + calls.resolveFailed = 6
                 /\ ret = [conn |-> NoConn, err |-> lastCall.err]
        /\ (pc = "done" /\ Attempts = 6 /\ lastCall.err # Nil)
              => ret = [conn |-> NoConn, err |-> lastCall.err]

\* C3 witness: six attempts failed, two of them at resolution
C3_Witness ==
    /\ pc = "done"
    /\ ctxErr = Nil
    /\ target.IsService
    /\ calls.resolve = 6
    /\ calls.resolveFailed = 2
    /\ calls.dial = 4
    /\ ret.err = lastCall.err
    /\ isRetriableError(ret.err)

\* C4: when the pod dialer succeeds on attempt k after retriable failures on
\* attempts 1..k-1, dialTarget returns the connection of that dial after exactly k
\* pod-dial calls, with one wait per failed attempt and none after the success,
\* and in service mode after exactly k resolver calls.
C4_SucceedsOnAttemptK ==
    (pc = "done" /\ InDialTarget /\ ret.conn # NoConn) =>
        /\ ret.err = Nil
        /\ lastCall.op = "dial"
        /\ lastCall.attempt = attempt
        /\ ret.conn = lastCall.conn
        /\ ret.conn = [kind |-> "stream", id |-> calls.dial]
        /\ Len(waits) = Attempts - 1
        /\ calls.resolve = IF target.IsService THEN Attempts ELSE 0
        /\ calls.resolveFailed = 0 => calls.dial = Attempts

\* C4 witness: in service mode the third pod dial succeeded
C4_Witness ==
    /\ pc = "done"
    /\ target.IsService
    /\ ret.conn = [kind |-> "stream", id |-> 3]
    /\ calls.dial = 3
    /\ calls.resolve = 3
    /\ waits = <<1, 2>>

\* C5: a non-retriable error of the resolver or of the pod dialer ends dialTarget
\* at that attempt: that error is returned, no backoff wait and no further call
\* follows, and after a non-retriable resolver error the pod dialer is not called
\* in that attempt.
C5_NonRetriableStops ==
    (InDialTarget /\ lastCall.err # Nil /\ ~isRetriableError(lastCall.err)) =>
        /\ pc = "done"
        /\ ret = [conn |-> NoConn, err |-> lastCall.err]
        /\ lastCall.attempt = attempt
        /\ Len(waits) = Attempts - 1
        /\ calls.dial + calls.resolveFailed = Attempts
        /\ lastCall.op = "resolve" => (calls.resolve = Attempts /\ calls.dial < Attempts)

\* C5 witness: the resolver answered "forbidden" on the third attempt
C5_Witness ==
    /\ pc = "done"
    /\ lastCall.op = "resolve"
    /\ lastCall.err = ErrForbidden(target)
    /\ attempt = 2
    /\ waits = <<1, 2>>

\* C6: in service mode every attempt calls the resolver before it dials and dials
\* the pod the resolver returned in that same attempt; in pod mode the resolver is
\* never called and every attempt dials the pod of the Target.
C6_ReResolvesEveryAttempt ==
    InDialTarget =>
        IF target.IsService
        THEN /\ pc \in {"dial", "backoff", "done"} => calls.resolve = Attempts
             /\ pc = "dial" =>
                   /\ lastResolve.attempt = attempt
                   /\ lastResolve.err = Nil
                   /\ podName = lastResolve.out
             /\ lastCall.op = "dial" =>
                   /\ lastResolve.op = "resolve"
                   /\ lastResolve.attempt = lastCall.attempt
                   /\ lastResolve.err = Nil
                   /\ lastCall.name = lastResolve.out
        ELSE /\ calls.resolve = 0
             /\ lastResolve = NoCall
             /\ pc = "dial" => podName = target.PodName
             /\ lastCall.op = "dial" => lastCall.name = target.PodName

\* C6 witness: after the dial of db-0 failed, the next attempt resolved and dials db-1
C6_Witness ==
    /\ pc = "done"
    /\ target.IsService
    /\ lastErr = Errorf("SPDY dial to default/db-0: ", ECONNRESET)
    /\ lastCall.op = "dial"
    /\ lastCall.attempt = 1
    /\ lastCall.name = "db-1"
    /\ lastCall.err = Nil

\* C7: when the context is cancelled during a backoff wait, dialTarget returns an
\* error that matches context.Canceled and calls neither the resolver nor the pod
\* dialer after the cancellation.
C7_CancelDuringBackoff ==
    (ctxErr = Canceled /\ cancelAt.pc = "backoff") =>
        /\ pc \in {"backoff", "done"}
        /\ attempt = cancelAt.attempt
        /\ calls.resolve = cancelAt.resolve
        /\ calls.dial = cancelAt.dial
        /\ pc = "done" => (ret.conn = NoConn /\ ErrorsIs(ret.err, Canceled))

\* C7 witness: cancelled in the wait after the fifth attempt, and returned
C7_Witness ==
    /\ pc = "done"
    /\ ctxErr = Canceled
    /\ cancelAt.pc = "backoff"
    /\ cancelAt.attempt = 4
    /\ ErrorsIs(ret.err, Canceled)

\* some layer of the chain is one of the five retriable sentinels
WrapsSentinel(e) ==
    \E i \in 1..Len(e) :
        e[i].id \in {"EPIPE", "ECONNRESET", "ECONNREFUSED", "EOF", "ErrUnexpectedEOF"}

\* the error is, or wraps, a net.Error whose Timeout() is true
WrapsTimeout(e) == \E i \in 1..Len(e) : e[i].net /\ e[i].timeout

\* C8: isRetriableError(e) is true for every error that wraps, at any depth,
\* EPIPE, ECONNRESET, ECONNREFUSED, io.EOF or io.ErrUnexpectedEOF, for every error
\* that is or wraps a net.Error whose Timeout() is true, and for every error whose
\* message contains "no ready pod endpoints"; it is false for every other error,
\* in particular for errors.New("permission denied").
C8_RetryClassifier ==
    clsRes # "none" =>
        /\ clsRes = "true" <=>
              \/ WrapsSentinel(clsErr)
              \/ WrapsTimeout(clsErr)
              \/ Contains(ErrorMsg(clsErr), "no ready pod endpoints")
        /\ clsErr = New("permission denied") => clsRes = "false"

RECURSIVE SumSeq(_)
SumSeq(q) == IF Len(q) = 0 THEN 0 ELSE Head(q) + SumSeq(Tail(q))

\* C9: the wait after the failed attempt with 0-based index i (i = 0..4) is
\* baseBackoff * 2^i; there is no wait after the 6th attempt and none after a
\* non-retriable failure; a call that exhausts its 6 attempts has waited
\* 31 * baseBackoff in all.  The waits are counted in base backoffs.
C9_BackoffSchedule ==
    InDialTarget =>
        /\ Len(waits) <= 5
        /\ \A i \in 0..(Len(waits) - 1) : waits[i + 1] = <<1, 2, 4, 8, 16>>[i + 1]
        /\ Len(waits) \in {Attempts - 1, Attempts}
        /\ Len(waits) = Attempts =>
              /\ pc = "backoff" \/ (pc = "done" /\ ctxErr # Nil)
              /\ lastCall.err # Nil
              /\ isRetriableError(lastCall.err)
        /\ (pc = "done" /\ Attempts = 6 /\ ret.conn = NoConn)
              => (SumSeq(waits) = 31 /\ Len(waits) = 5)

\* C9 witness: six failed attempts, five waits
C9_Witness ==
    /\ pc = "done"
    /\ calls.dial = 6
    /\ ret.err = lastCall.err
    /\ waits = <<1, 2, 4, 8, 16>>

\* dialTarget returned out of a backoff wait
ReturnedFromWait == pc = "done" /\ InDialTarget /\ Len(waits) = Attempts

\* inner is recoverable from the chain of e
WrapsErr(e, inner) == inner # Nil /\ \E i \in 1..Len(e) : SubSeq(e, i, Len(e)) = inner

\* C10, as claimed: the error returned when the context is cancelled during a
\* backoff wait is a cancellation error that wraps the original failure, the
\* retriable error that caused the backoff.
C10_WrapsOriginalFailure ==
    (ReturnedFromWait /\ ctxErr = Canceled) =>
        /\ ErrorsIs(ret.err, Canceled)
        /\ WrapsErr(ret.err, lastErr)

\* C10, amended: the error returned out of a backoff wait is
\* fmt.Errorf("dial retry cancelled: %w", ctx.Err()): it wraps ctx.Err() and
\* nothing else, so after a cancellation it matches context.Canceled and the
\* retriable error that caused the backoff is not in its chain.
C10_WrapsContextErrorOnly ==
    ReturnedFromWait =>
        /\ ctxErr # Nil
        /\ ret.conn = NoConn
        /\ ret.err = Leaf("wrapError", "dial retry cancelled: ", FALSE, FALSE) \o ctxErr
        /\ lastErr = lastCall.err
        /\ isRetriableError(lastErr)
        /\ ctxErr = Canceled => (ErrorsIs(ret.err, Canceled) /\ ~WrapsErr(ret.err, lastErr))

\* C10 witness: cancelled while waiting after the resolver found no ready pod
C10_Witness ==
    /\ ReturnedFromWait
    /\ ctxErr = Canceled
    /\ cancelAt.pc = "backoff"
    /\ lastErr = ErrNoReadyPods(target)

\* the port of the address is a decimal number, with or without a sign
NumericPort(a) ==
    LET p    == PortOf(a)
        body == IF Len(p) > 0 /\ Char(p, 1) \in {"+", "-"} THEN SubSeq(p, 2, Len(p)) ELSE p
    IN  HasPort(a) /\ Len(body) > 0 /\ \A i \in 1..Len(body) : Char(body, i) \in Digits

\* the port of the address is an unsigned decimal number of 1..65535
ValidPort(a) ==
    /\ HasPort(a)
    /\ Len(PortOf(a)) > 0
    /\ \A i \in 1..Len(PortOf(a)) : Char(PortOf(a), i) \in Digits
    /\ DecVal(PortOf(a)) \in 1..65535

\* the labels of the host after suffix stripping
Labels(a) == Split(StrippedHost(a), ".")

\* C11: for every address with a valid port, ParseTarget classifies by the number
\* of dot-separated labels of the host after suffix stripping: 2 labels give
\* service mode with service = label[0], no namespace, cluster = label[1]; 3 labels
\* give service mode with service, namespace, cluster = labels 0, 1, 2; 4 labels
\* give pod mode with pod, service, namespace, cluster = labels 0, 1, 2, 3; any
\* other number of labels fails with an invalid-address error and no Target.
C11_ClassifiesByLabelCount ==
    (parseRet.done /\ ValidPort(parseIn.addr)) =>
        LET L    == Labels(parseIn.addr)
            port == DecVal(PortOf(parseIn.addr))
        IN  CASE Len(L) = 2 ->
                    /\ parseRet.err = Nil
                    /\ parseRet.target =
                          [Cluster |-> L[2], IsService |-> TRUE, ServiceName |-> L[1],
                           PodName |-> "", Namespace |-> "", Port |-> port]
              [] Len(L) = 3 ->
                    /\ parseRet.err = Nil
                    /\ parseRet.target =
                          [Cluster |-> L[3], IsService |-> TRUE, ServiceName |-> L[1],
                           PodName |-> "", Namespace |-> L[2], Port |-> port]
              [] Len(L) = 4 ->
                    /\ parseRet.err = Nil
                    /\ parseRet.target =
                          [Cluster |-> L[4], IsService |-> FALSE, ServiceName |-> L[2],
                           PodName |-> L[1], Namespace |-> L[3], Port |-> port]
              [] OTHER ->
                    /\ Contains(ErrorMsg(parseRet.err), "unsupported address format")
                    /\ parseRet.target = NoTarget

\* C11 witness: a four-label host with the short suffix was parsed as a pod
C11_Witness ==
    /\ parseRet.done
    /\ parseIn.addr = "db.db.db.prod.svc:80"
    /\ parseRet.target.PodName = "db"
    /\ ~parseRet.target.IsService

\* C12: ParseTarget fails with an invalid-address error whenever the port is
\* absent, not a number, or a number outside 1..65535 (0, negative values and
\* 65536 among them), whatever the host is; every Target it returns has a port
\* in 1..65535.
C12_PortValidation ==
    parseRet.done =>
        /\ (\/ ~HasPort(parseIn.addr)
            \/ ~NumericPort(parseIn.addr)
            \/ Atoi(PortOf(parseIn.addr)).val \notin 1..65535)
              => (parseRet.err # Nil /\ parseRet.target = NoTarget)
        /\ parseRet.err = Nil => parseRet.target.Port \in 1..65535
        /\ (ValidPort(parseIn.addr) /\ Len(Labels(parseIn.addr)) \in 2..4)
              => parseRet.target.Port = DecVal(PortOf(parseIn.addr))

\* C12 witness: port 65536 was refused
C12_Witness ==
    /\ parseRet.done
    /\ parseIn.addr = "db.prod:65536"
    /\ parseRet.err = New("port 65536 out of range 1-65535")
    /\ parseRet.target = NoTarget

\* the Target that the fields of a tuple of the grammar describe
TupleTarget(t) ==
    [Cluster |-> t.cluster, IsService |-> t.pod = "", ServiceName |-> t.svc,
     PodName |-> t.pod, Namespace |-> t.ns, Port |-> t.port]

\* C13: parser round trip: for every tuple (pod?, svc, ns?, cluster, port) of the
\* address grammar, ParseTarget applied to the rendering [pod.]svc[.ns].cluster:port
\* returns exactly those fields, and with .svc or .svc.cluster.local appended to
\* the host it returns the same Target as for the address without the suffix.
C13_ParserRoundTrip ==
    (parseRet.done /\ parseIn.tuple # NoTuple) =>
        /\ parseRet.err = Nil
        /\ parseRet.target = TupleTarget(parseIn.tuple)
        /\ [err |-> parseRet.err, target |-> parseRet.target]
              = ParseTarget(Render(parseIn.tuple, ""))

\* the address has a Kubernetes shape, and its cluster label is not in the table
UnknownCluster(a) ==
    /\ ValidPort(a)
    /\ Len(Labels(a)) \in 2..4
    /\ LastLabel(StrippedHost(a)) \notin DOMAIN Forwarders

\* C14, as claimed: DialContext on an address of a Kubernetes shape (2 to 4 labels
\* after suffix stripping, a valid port) whose cluster label is absent from the
\* router table fails with a dial error that names the unknown cluster.
C14_UnknownClusterFails ==
    (pc = "done" /\ UnknownCluster(addr)) =>
        /\ ret.conn = NoConn
        /\ Contains(ErrorMsg(ret.err), "cluster " \o Quote(LastLabel(StrippedHost(addr))))

\* C14, amended: such an address is passed through: DialContext makes one direct
\* TCP dial to the unmodified address and returns its result, a connection when
\* the dial succeeds; it does not parse the address, reaches no forwarder and
\* never reports the cluster as not found.
C14_UnknownClusterPassesThrough ==
    (pc = "done" /\ UnknownCluster(addr)) =>
        /\ calls = [NoCalls EXCEPT !.tcp = 1]
        /\ forwarder = ""
        /\ lastCall.op = "tcp"
        /\ lastCall.name = addr
        /\ ret.err = lastCall.err
        /\ ret.conn = NoConn <=> ret.err # Nil
        /\ ~Contains(ErrorMsg(ret.err), "not found in forwarders map")

\* C14 witness: a three-label address of an unknown cluster got a TCP connection
C14_Witness ==
    /\ pc = "done"
    /\ addr = "db.db.db:80"
    /\ "db" \notin DOMAIN Forwarders
    /\ calls.tcp = 1
    /\ ret.conn = [kind |-> "tcp", id |-> 0]
    /\ ret.err = Nil

\* how often x occurs in the sequence q
Count(q, x) == Cardinality({i \in 1..Len(q) : q[i] = x})

\* C15: for any N >= 1 calls of StreamConn.Close, sequential or concurrent, the
\* data stream, the error stream and the SPDY session are each closed exactly
\* once, and every one of the N calls returns the same error value as the first.
C15_CloseIdempotent ==
    /\ \A x \in {"data", "error", "spdy"} :
          /\ Count(closed, x) <= 1
          /\ Len(closeRets) >= 1 => Count(closed, x) = 1
    /\ \A i, j \in 1..Len(closeRets) : closeRets[i].err = closeRets[j].err

\* the first error that is not nil, or nil
RECURSIVE FirstNonNil(_)
FirstNonNil(errs) ==
    IF errs = <<>> THEN Nil
    ELSE IF Head(errs) # Nil THEN Head(errs) ELSE FirstNonNil(Tail(errs))

\* C16: the first StreamConn.Close closes the data stream, then the error stream,
\* then the SPDY session, in that order, attempts all three even when an earlier
\* close fails, and returns the first non-nil error among the three close
\* operations (nil only if all three succeeded).
C16_CloseOrderAndFirstError ==
    /\ \E k \in 0..3 : closed = SubSeq(<<"data", "error", "spdy">>, 1, k)
    /\ \A i \in 1..Len(closeRets) :
          closeRets[i].ran =>
              /\ closed = <<"data", "error", "spdy">>
              /\ closeRets[i].err
                    = FirstNonNil(<<closeOuts.data, closeOuts.error, closeOuts.spdy>>)

\* what C17 says of a Read that has returned
ReadSubstitutes ==
    readPc = "done" =>
        /\ readRet.n = readOwn.n
        /\ IF readOwn.err = EOF /\ readVia = "errDone" /\ remoteErr # Nil
           THEN readRet.err = remoteErr
           ELSE readRet.err = readOwn.err
        /\ readVia = "errDone" => (readOwn.err = EOF /\ monPc = "done")
        /\ readVia = "timeout" => readOwn.err = EOF
        /\ readOwn.err # EOF => readVia = "none"

\* C17: StreamConn.Read returns the captured remote error in place of EOF exactly
\* when the data stream returned EOF, the monitor signalled completion within the
\* bounded wait and the monitor had captured an error; in every other case (a
\* result other than EOF, the wait timing out, no error captured) it returns the
\* data stream's own result.  So a remote error is never surfaced before the EOF
\* of the data stream, and a Read that saw EOF does not wait for the monitor
\* forever.
C17_ReadSurfacesRemoteErrorAtEOF ==
    /\ []ReadSubstitutes
    /\ (readPc = "select") ~> (readPc = "done")

\* C17 witness: EOF, the monitor finished in time with a remote error, and Read
\* returned that error
C17_Witness ==
    /\ readPc = "done"
    /\ readOwn.err = EOF
    /\ readVia = "errDone"
    /\ readRet.err = New("remote error: pod not found")

\* the endpoints of the answer, in API order
RECURSIVE Flatten(_)
Flatten(slices) == IF slices = <<>> THEN <<>> ELSE Head(slices) \o Flatten(Tail(slices))

\* the places of the endpoints that are not skipped and refer to a Pod
Candidates(eps) ==
    {i \in 1..Len(eps) :
        /\ eps[i].Ready # "false"
        /\ eps[i].Serving # "false"
        /\ eps[i].Terminating # "true"
        /\ ~eps[i].ref.isNil
        /\ eps[i].ref.Kind = "Pod"}

\* C18: ResolveServiceToPod scans the EndpointSlices in API order and the endpoints
\* in order within each, skips every endpoint with Ready = false, Serving = false
\* or Terminating = true (an unset flag causes no skip), and returns the name of
\* the first endpoint not skipped whose TargetRef kind is "Pod"; when there is
\* none it fails with an error whose message contains "no ready pod endpoints",
\* which isRetriableError classifies as retriable.
C18_FirstReadyPodEndpoint ==
    (epRet.done /\ epIn.listErr = Nil) =>
        LET eps == Flatten(epIn.slices)
        IN  IF Candidates(eps) # {}
            THEN /\ epRet.err = Nil
                 /\ epRet.pod = eps[SetMin(Candidates(eps))].ref.Name
            ELSE /\ epRet.pod = ""
                 /\ Contains(ErrorMsg(epRet.err), "no ready pod endpoints")
                 /\ isRetriableError(epRet.err)

\* C18 witness: a not-ready pod, a node and a pod with unset conditions in a later
\* slice: the last one is returned
C18_Witness ==
    /\ epRet.done
    /\ epIn.slices = <<<<Endpoint("false", "nil", "nil", "Pod", "db-2"),
                         Endpoint("true", "true", "false", "Node", "node-1")>>,
                       <<Endpoint("nil", "nil", "nil", "Pod", "db-0")>>>>
    /\ epRet.pod = "db-0"
    /\ epRet.err = Nil

\* the error is a broken pipe or a connection reset: one of the two errnos is in
\* its chain, or its message says so
BrokenPipeOrReset(e) ==
    \/ \E i \in 1..Len(e) : e[i].id \in {"EPIPE", "ECONNRESET"}
    \/ Contains(ErrorMsg(e), "broken pipe")
    \/ Contains(ErrorMsg(e), "connection reset")

\* the response and the error of a recorded call
OutOf(call) == [resp |-> call.resp, err |-> call.err]

\* C19: retryTransport.RoundTrip calls the base transport exactly once, and never
\* CloseIdleConnections, when the first attempt succeeds or fails with an error
\* that is not a broken pipe or a connection reset; when the first attempt fails
\* with a broken pipe or a connection reset it calls CloseIdleConnections exactly
\* once and then the base transport exactly once more, and returns the result of
\* the second attempt whatever it is.  No request causes more than two base round
\* trips.
C19_RetryOnceOnBrokenPipe ==
    /\ Len(rtCalls) <= 2
    /\ idlesClosed <= 1
    /\ (rtPc = "done" /\ rtCalls # <<>>) =>
          IF rtCalls[1].err = Nil \/ ~BrokenPipeOrReset(rtCalls[1].err)
          THEN /\ Len(rtCalls) = 1
               /\ idlesClosed = 0
               /\ rtRet = OutOf(rtCalls[1])
          ELSE /\ Len(rtCalls) = 2
               /\ idlesClosed = 1
               /\ rtCalls[1].idles = 0
               /\ rtCalls[2].idles = 1
               /\ rtRet = OutOf(rtCalls[2])

\* C19 witness: a connection reset under two wrappers, then a second failure that
\* is returned as it is
C19_Witness ==
    /\ rtPc = "done"
    /\ Len(rtCalls) = 2
    /\ rtCalls[1].err = ErrPostReset
    /\ idlesClosed = 1
    /\ rtRet = [resp |-> 0, err |-> EPIPE]

\* C20: for every request body, when retryTransport retries, the body the base
\* transport is given on attempt 2 is byte-identical to the one of attempt 1 and
\* to the original request body, although attempt 1 consumed its reader; when
\* reading the original body fails, RoundTrip returns that error without calling
\* the base transport.
C20_RetryPreservesBody ==
    /\ \A i \in 1..Len(rtCalls) :
          rtCalls[i].offered = [isNil |-> ~rtReq.hasBody, data |-> rtReq.body]
    /\ (rtPc # "idle" /\ rtReq.hasBody /\ rtReq.readErr # Nil) =>
          /\ rtPc = "done"
          /\ rtCalls = <<>>
          /\ idlesClosed = 0
          /\ rtRet = [resp |-> 0, err |-> rtReq.readErr]

\* C20 witness: the first attempt read the whole body, and the retry got it again
C20_Witness ==
    /\ Len(rtCalls) = 2
    /\ rtReq.body = "ab"
    /\ rtCalls[1].read = 2
    /\ rtCalls[2].offered = [isNil |-> FALSE, data |-> "ab"]

\* the items of a sequence
Items(s) == {s[i] : i \in 1..Len(s)}

\* the client was sent the line "200 Connection Established"
GotEstablished == Established \in Items(recv["down"])

\* C21: a CONNECT request whose upstream dial fails is answered with 502, its
\* connection is not hijacked and the 200 Connection Established line is never
\* written; the 200 line is written only after the dial succeeded and the
\* connection was hijacked; when the dial succeeded and the ResponseWriter is no
\* Hijacker, the answer is 500.
C21_ConnectStatus ==
    hcPc # "idle" =>
        /\ hcIn.dialErr # Nil => wStatus = 502 /\ hijacks = 0 /\ ~GotEstablished
        /\ GotEstablished => hcIn.dialErr = Nil /\ hijacks = 1 /\ wStatus = 0
        /\ (hcIn.dialErr = Nil /\ ~hcIn.hijacker) =>
              wStatus = 500 /\ hijacks = 0 /\ ~GotEstablished

\* C21 witness: the dial of a CONNECT request was refused and the call returned
\* with 502 written, although the connection could have been hijacked
C21_Witness ==
    /\ hcPc = "done"
    /\ hcIn.dialErr = ErrDialUpstream
    /\ hcIn.hijacker
    /\ wStatus = 502
    /\ closes = [e \in Endpoints |-> 0]

\* C22: a forwarded (non-CONNECT) request whose URL is not absolute is answered
\* with 400 and neither the transport nor the dialer is called for it; a request
\* with an absolute URL whose round trip fails, a failed dial included, is
\* answered with 502.
C22_ForwardStatus ==
    fwPc = "done" =>
        /\ fwReq.url.scheme = "" => wCode = 400 /\ fwCalls = 0 /\ fwDials = 0
        /\ (fwReq.url.scheme # "" /\ fwOut.err # Nil) => wCode = 502 /\ fwCalls = 1

\* C22 witness: a request for /relative was answered with 400 without a round trip
C22_Witness ==
    /\ fwPc = "done"
    /\ fwReq.url.path = "/relative"
    /\ fwReq.url.scheme = ""
    /\ wCode = 400
    /\ fwCalls = 0

\* the sequence s is made of the first bytes a peer sent, in the order it sent them
PrefixOfSent(s, n) == Len(s) <= n /\ \A i \in 1..Len(s) : s[i] = i

\* C23: after a successful CONNECT, what has been written to the upstream is at
\* every moment a prefix of the bytes the client sent after the request headers,
\* the bytes the HTTP parser had buffered first; and what has been written to the
\* client after the 200 line is a prefix of the bytes the upstream sent.
C23_TunnelCarriesPrefix ==
    GotEstablished =>
        /\ PrefixOfSent(recv["up"], sent["up"])
        /\ hcPc = "relay" => Len(recv["up"]) >= hcIn.buffered
        /\ Head(recv["down"]) = Established
        /\ PrefixOfSent(Tail(recv["down"]), sent["down"])

\* C23 witness: one byte was in the parser's buffer and one more came through the
\* relay, and the client got the 200 line and then the first byte of the upstream
C23_Witness ==
    /\ hcIn.buffered = 1
    /\ recv["up"] = <<1, 2>>
    /\ recv["down"] = <<Established, 1>>
    /\ sent["down"] = 2

\* C25: relay runs one copy task per direction; the task copying a to b closes b
\* when it ends and the task copying b to a closes a; relay returns only after
\* both have ended, so that once it has returned both endpoints are closed and
\* no copy task is running.
C25_RelayReturnsAfterBoth ==
    /\ \A d \in Directions : copyPc[d] = "done" => closes[Dst(d)] >= 1
    /\ hcPc = "relayed" =>
          /\ \A d \in Directions : copyPc[d] = "done"
          /\ \A e \in Endpoints : closes[e] = 1

\* C25 witness: relay has returned after the upstream closed its side, having
\* carried a byte to the upstream, and handleConnect has not yet run its defers
C25_Witness ==
    /\ hcPc = "relayed"
    /\ peerDone["down"]
    /\ ~peerDone["up"]
    /\ recv["up"] = <<1>>
    /\ closes = [e \in Endpoints |-> 1]

\* the nine hop-by-hop header fields
HopByHopNames ==
    {"Connection", "Proxy-Connection", "Keep-Alive", "Proxy-Authenticate",
     "Proxy-Authorization", "Te", "Trailer", "Transfer-Encoding", "Upgrade"}

\* the header got carries no hop-by-hop field, and every other field of the
\* header was, with the values it has there
Forwarded(got, was) ==
    /\ DOMAIN got = DOMAIN was \ HopByHopNames
    /\ \A k \in DOMAIN got : got[k] = was[k]

\* C24: of a forwarded request, none of the nine hop-by-hop fields is in the
\* header handed to the transport, and of its response none is in the header
\* written to the client; every other field passes, in both directions, with
\* its values unchanged.
C24_HopByHopStripped ==
    /\ fwCalls = 1 => Forwarded(outHeader, fwReq.header)
    /\ (fwCalls = 1 /\ fwOut.err = Nil) => Forwarded(wHeader, fwOut.header)

\* C24 witness: the request came with Upgrade and Accept and went out with Accept
\* alone; the response came with all nine fields and X-Real-Header and went to
\* the client with X-Real-Header alone
C24_Witness ==
    /\ fwPc = "done"
    /\ DOMAIN fwReq.header = {"Upgrade", "Accept"}
    /\ outHeader = [k \in {"Accept"} |-> <<"text/html", "*/*">>]
    /\ DOMAIN fwOut.header = HopByHopNames \cup {"X-Real-Header"}
    /\ wHeader = [k \in {"X-Real-Header"} |-> <<"preserved">>]

\* C26: once a signal has ended the root context, each HTTP server (the HTTP
\* proxy and the PAC server) gets its graceful shutdown, which lasts up to five
\* seconds, and the connections in flight come to their end, before the process
\* exits: when the process has exited, Shutdown of each server has been called
\* and has returned, and no connection was cut.
C26_GracefulShutdown ==
    mainPc = "exited" =>
        /\ \A s \in Servers : shutPc[s] = "returned"
        /\ \A c \in Conns : connSt[c] # "killed"

\* C27: once the caller's context has ended, dialTarget starts no resolver call
\* and no pod dial any more, a first attempt under a context that had already
\* ended included: after the end of the context the only resolver call or pod
\* dial that is counted is the one that was in progress when it ended.
C27_HonorsContext ==
    (ctxErr # Nil /\ InDialTarget) =>
        /\ calls.resolve <= cancelAt.resolve + (IF cancelAt.pc = "resolve" THEN 1 ELSE 0)
        /\ calls.dial <= cancelAt.dial + (IF cancelAt.pc = "dial" THEN 1 ELSE 0)

\* a name that is one hostname label
SingleLabel(n) == n # "" /\ Positions(n, ".") = {}

\* the list is not empty and its names are single labels, each occurring once
WellFormed(clusters) ==
    /\ Len(clusters) > 0
    /\ \A i \in 1..Len(clusters) : SingleLabel(clusters[i].Name)
    /\ \A i, j \in 1..Len(clusters) : clusters[i].Name = clusters[j].Name => i = j

\* two different kubeconfig files that LoadConfig parsed have a context of the
\* same name
DuplicateContext ==
    \E i, j \in 1..Len(cfgLoaded) :
        /\ i # j
        /\ DOMAIN KubeFiles[cfgLoaded[i]] \cap DOMAIN KubeFiles[cfgLoaded[j]] # {}

FailedOtherwise ==
    /\ cfgRet.err # Nil
    /\ ~HasPrefix(cfgRet.err[Len(cfgRet.err)].text, "duplicate cluster name")

\* the file that was parsed first among those with a context of the name
FirstProvider(name) ==
    cfgLoaded[SetMin({i \in 1..Len(cfgLoaded) : name \in DOMAIN KubeFiles[cfgLoaded[i]]})]

\* C29: when a context of the same name is in more than one kubeconfig source,
\* it is taken from the first phase that provides it and the later ones are
\* skipped: start-up succeeds, with exactly one cluster of each such name, which
\* comes from the first file that has it.
C29_FirstSourceWins ==
    (cfgPc # "idle" /\ DuplicateContext /\ ~FailedOtherwise) =>
        /\ cfgRet.err = Nil
        /\ \A p \in Items(cfgLoaded) : \A name \in DOMAIN KubeFiles[p] :
              /\ Cardinality({i \in 1..Len(cfgRet.clusters) : cfgRet.clusters[i].Name = name}) = 1
              /\ \A i \in 1..Len(cfgRet.clusters) :
                    cfgRet.clusters[i].Name = name =>
                        cfgRet.clusters[i].Kubeconfig = FirstProvider(name)

\* the value of a header field that was set once
Field(h, key) == h[key][1]

\* C30: dialPod creates the error stream before the data stream, both with the
\* port of the call as Port and with Requestid 0; when the error stream cannot be
\* created it closes the session; when the data stream cannot be created it
\* closes the error stream and then the session; in both cases, as after every
\* failure, it returns no StreamConn and leaves no session or stream open.
C30_StreamOrderAndCleanup ==
    dpPc = "done" =>
        /\ \A i \in 1..Len(dpCreated) :
              /\ Field(dpCreated[i].headers, "Streamtype") = IF i = 1 THEN "error" ELSE "data"
              /\ Atoi(Field(dpCreated[i].headers, "Port")) = [ok |-> TRUE, val |-> dpIn.port]
              /\ Field(dpCreated[i].headers, "Requestid") = "0"
        /\ Len(dpCreated) <= 2
        /\ dpRet.err = Nil => Len(dpCreated) = 2 /\ dpRet.conn # "nil"
        /\ (dpIn.rtErr = Nil /\ dpIn.dialErr = Nil /\ dpIn.errStreamErr # Nil) =>
              dpClosed = <<"session">> /\ Len(dpCreated) = 1
        /\ (dpIn.rtErr = Nil /\ dpIn.dialErr = Nil /\ dpIn.errStreamErr = Nil
                /\ dpIn.dataStreamErr # Nil) =>
              dpClosed = <<"error", "session">>
        /\ dpRet.err # Nil => dpRet.conn = "nil" /\ dpOpen = {}
        /\ (dpIn.rtErr # Nil \/ dpIn.dialErr # Nil \/ dpIn.errStreamErr # Nil
                \/ dpIn.dataStreamErr # Nil) => dpRet.err # Nil

\* C30 witness: the session to apps/db-0 was dialed and its error stream created
\* for port 5432, and the data stream was refused
C30_Witness ==
    /\ dpPc = "done"
    /\ dpIn.ns = "apps" /\ dpIn.pod = "db-0" /\ dpIn.port = 5432
    /\ Len(dpCreated) = 2
    /\ dpCreated[1].err = Nil
    /\ dpCreated[2].err = ErrStreamRefused
    /\ dpRet = [conn |-> "nil", err |-> Errorf("creating data stream: ", ErrStreamRefused)]
    /\ dpOpen = {}

(***************************************************************************)
(* The namespace the router hands to dialTarget.                           *)
(***************************************************************************)
\* no label of the stripped host is empty
NoEmptyLabel(a) == \A i \in 1..Len(Labels(a)) : Labels(a)[i] # ""

\* C33: on the Kubernetes path the Target handed to dialTarget carries the
\* forwarder's default namespace exactly when the parsed namespace is empty (as
\* it is for every 2-label address); a namespace written in a 3- or 4-label
\* address is passed on as written, no other field of the parsed Target is
\* changed, and the resolver and the pod dialer are called with that namespace.
C33_DefaultNamespaceOnlyWhenEmpty ==
    InDialTarget =>
        LET p   == ParseTarget(addr).target
            fwd == Forwarders[forwarder]
        IN  /\ target.Namespace =
                  IF p.Namespace = "" THEN fwd.DefaultNamespace ELSE p.Namespace
            /\ [target EXCEPT !.Namespace = p.Namespace] = p
            /\ Len(Labels(addr)) = 2 => target.Namespace = fwd.DefaultNamespace
            /\ (Len(Labels(addr)) \in {3, 4} /\ NoEmptyLabel(addr))
                  => target.Namespace = Labels(addr)[Len(Labels(addr)) - 1]
            /\ lastCall.op \in {"resolve", "dial"} => lastCall.ns = target.Namespace

\* C33 witness: a 3-label address reached the pod dialer with its own namespace,
\* which is not the default namespace of the cluster
C33_Witness ==
    /\ pc = "done"
    /\ addr = "db.db.prod:80"
    /\ forwarder = "prod"
    /\ Forwarders["prod"].DefaultNamespace = "default"
    /\ lastCall.op = "dial"
    /\ lastCall.ns = "db"

\* C34: every Target that ParseTarget returns has a non-empty cluster, a
\* non-empty service name, a pod name that is non-empty exactly in pod mode and
\* a port in 1..65535, hosts with empty labels included.
C34_TargetInvariants ==
    (parseRet.done /\ parseRet.err = Nil) =>
        /\ parseRet.target.Cluster # ""
        /\ parseRet.target.ServiceName # ""
        /\ (parseRet.target.PodName # "") <=> ~parseRet.target.IsService
        /\ parseRet.target.Port \in 1..65535

\* C36: dialTarget returns exactly one of a connection and an error, and a
\* connection it returns is the one the last pod-dialer call produced.
C36_ConnXorError ==
    (InDialTarget /\ pc = "done") =>
        /\ (ret.conn = NoConn) # (ret.err = Nil)
        /\ ret.conn # NoConn =>
              /\ lastCall.op = "dial"
              /\ lastCall.err = Nil
              /\ lastCall.conn = ret.conn
              /\ ret.conn = [kind |-> "stream", id |-> calls.dial]

\* C36 witness: the third pod dial succeeded and its connection was returned
C36_Witness ==
    /\ pc = "done"
    /\ forwarder # ""
    /\ calls.dial = 3
    /\ ret.err = Nil
    /\ ret.conn = [kind |-> "stream", id |-> 3]

\* C37: whenever DialContext takes the Kubernetes path and ParseTarget succeeds,
\* the parsed cluster is the label clusterSuffix matched, and the forwarder whose
\* dialTarget runs is the table's entry for that cluster.
C37_RouterAndParserAgree ==
    /\ (pc # "idle" /\ clusterSuffix(Forwarders, addr) # "" /\ ParseTarget(addr).err = Nil)
          => ParseTarget(addr).target.Cluster = clusterSuffix(Forwarders, addr)
    /\ InDialTarget =>
          /\ forwarder \in DOMAIN Forwarders
          /\ forwarder = clusterSuffix(Forwarders, addr)
          /\ target.Cluster = forwarder

\* C37 witness: an address of the cluster named svc, written with the short DNS
\* suffix, reached the pod dialer of that cluster
C37_Witness ==
    /\ pc = "done"
    /\ addr = "db.svc.svc:80"
    /\ forwarder = "svc"
    /\ target.Cluster = "svc"
    /\ calls.dial = 1

(***************************************************************************)
(* The connections of a CONNECT request when handleConnect has returned.   *)
(***************************************************************************)
\* C38: when handleConnect has returned, the upstream connection of a successful
\* dial has been closed, whichever step ended the handler (no Hijacker, a failed
\* hijack, a failed write of the 200 line, a failed drain, or the return of
\* relay), and so has the client connection of a successful hijack; the handler
\* closes nothing it did not obtain.
C38_NoLeakedConnection ==
    hcPc = "done" =>
        /\ hcIn.dialErr = Nil => closes["upstream"] >= 1
        /\ hcIn.dialErr # Nil => closes["upstream"] = 0
        /\ hijacks = 1 => closes["client"] >= 1
        /\ hijacks = 0 => closes["client"] = 0
        /\ (hcIn.dialErr = Nil /\ CanHijack(hcIn) /\ hcIn.hijackErr = Nil) => hijacks = 1

\* C38 witness: the drain of the buffered bytes failed after the hijack, and both
\* connections were closed on return
C38_Witness ==
    /\ hcPc = "done"
    /\ hcIn.dialErr = Nil
    /\ hijacks = 1
    /\ hcIn.writeErr = Nil
    /\ hcIn.drained < hcIn.buffered
    /\ closes = [e \in Endpoints |-> 1]

\* C39: under concurrent Close calls, whenever a call of Close has returned or is
\* past closeOnce.Do, the data stream, the error stream and the SPDY session have
\* all been closed; a caller that arrives while the first is part-way waits.
C39_CloseReturnsAfterAllClosed ==
    (Len(closeRets) >= 1 \/ \E c \in Closers : closePc[c] \in {"return", "skip"}) =>
        /\ closed = <<"data", "error", "spdy">>
        /\ once = "done"

\* C39 witness: a caller that did not run the close function has returned, while
\* the caller that ran it has not returned yet
C39_Witness ==
    /\ Len(closeRets) = 1
    /\ ~closeRets[1].ran
    /\ \E c \in Closers : closePc[c] = "return"
    /\ closed = <<"data", "error", "spdy">>

(***************************************************************************)
(* Termination of relay.                                                   *)
(***************************************************************************)
\* io.Copy has returned in the direction
CopyFinished(d) == copyPc[d] \in {"close", "done"}

\* C35: once the copy of either direction has finished, relay eventually returns,
\* given only that a Read or Write blocked on a closed connection returns.
C35_RelayTerminates ==
    (\E d \in Directions : CopyFinished(d)) ~> (hcPc \in {"relayed", "done"})

(***************************************************************************)
(* The byte counters.                                                      *)
(***************************************************************************)
\* the bytes a call has added to its counter and not yet returned
Counted(t) == IF ioPc[t] = "ret" THEN ioGot[t].n ELSE 0

\* each counter is the sum of the bytes returned by the completed calls and of
\* the bytes already added by the calls in progress
CountersAccount ==
    /\ bytesRead = ioRet.read + Counted("r1") + Counted("r2")
    /\ bytesWritten = ioRet.written + Counted("w1") + Counted("w2")
    /\ (\A t \in IoTasks : ioPc[t] = "idle") =>
          (bytesRead = ioRet.read /\ bytesWritten = ioRet.written)

\* C32: the byte counters never decrease and lose no update: under any
\* interleaving of concurrent Read and Write calls, BytesRead is the sum of the
\* byte counts of the Reads that have added theirs (with no call in progress,
\* the sum returned by all completed Reads, bytes returned with an error
\* included), and BytesWritten likewise for the Writes.
C32_CountersLoseNoUpdate ==
    /\ []CountersAccount
    /\ [][bytesRead' >= bytesRead /\ bytesWritten' >= bytesWritten]_vars

\* C32 witness: two Reads ran at the same time, one of them returning 3 bytes
\* with an error, and after both the counter holds the bytes of both
C32_Witness ==
    /\ ioPc["r1"] = "ret"
    /\ ioPc["r2"] = "ret"
    /\ ioGot["r1"] = [n |-> 3, err |-> ECONNRESET]
    /\ ioGot["r2"] = [n |-> 1, err |-> Nil]
    /\ ioSeen["r1"] = 0
    /\ ioSeen["r2"] = 0
    /\ bytesRead = 4

(***************************************************************************)
(* The error-stream monitor.                                               *)
(***************************************************************************)
\* the value of remoteErr that the monitor leaves behind, from what io.ReadAll
\* returned to it
FinalRemoteErr == RemoteErrOf(monOut.buf, monOut.err, Nil)

\* the error stream has been closed by Close
ErrorStreamClosed == \E i \in 1..Len(closed) : closed[i] = "error"

\* errDone is closed only after the store, and a Read that took the errDone case
\* returned what the monitor left behind
PublishedBeforeSignal ==
    /\ ErrDoneClosed => (monPc # "reading" /\ remoteErr = FinalRemoteErr)
    /\ readVia = "errDone" =>
          /\ readOwn.err = EOF
          /\ readRet.err = IF FinalRemoteErr # Nil THEN FinalRemoteErr ELSE EOF

\* the monitor goes through its statements once, in order, and errDone, once
\* closed, stays closed
SignalledOnce ==
    /\ monPc' # monPc => <<monPc, monPc'>> \in {<<"reading", "finishing">>, <<"finishing", "done">>}
    /\ ErrDoneClosed => ErrDoneClosed'
    /\ monPc = "done" => ErrDoneClosed

\* C31: the monitor stores the remote error before it signals completion: in
\* every interleaving with a concurrent Read, a Read that saw io.EOF on the data
\* stream and then the completion signal returns the monitor's final remote
\* error (never io.EOF when the monitor captured an error), and the signal is
\* raised once.
C31_StoreBeforeSignal ==
    /\ []PublishedBeforeSignal
    /\ [][SignalledOnce]_vars

\* C31 witness: a Read that saw io.EOF took the errDone case and returned the
\* message the monitor had captured
C31_Witness ==
    /\ readPc = "done"
    /\ readVia = "errDone"
    /\ monPc = "done"
    /\ monOut = [buf |-> "pod not found", err |-> Nil]
    /\ readRet = [n |-> 0, err |-> New("remote error: pod not found")]

\* what the monitor has read and stored stays within 4096 bytes
WithinCap ==
    /\ Len(monBuf) <= 4096
    /\ monPc # "reading" => Len(monOut.buf) <= 4096
    /\ monPc = "done" =>
          /\ ErrDoneClosed
          /\ remoteErr = FinalRemoteErr
          /\ (monOut.err = Nil /\ monOut.buf # "")
                => ErrorMsg(remoteErr) = "remote error: " \o monOut.buf

\* C40: the monitor terminates and signals completion once the error stream has
\* reached EOF, has failed, or has delivered 4096 bytes; it stores at most 4096
\* bytes of remote error; and once Close has closed the error stream the monitor
\* eventually terminates.
C40_MonitorTerminates ==
    /\ []WithinCap
    /\ (esEnd # "open" \/ Len(monBuf) >= 4096) ~> (monPc = "done")
    /\ ErrorStreamClosed ~> (monPc = "done")

\* C40 witness: the monitor ended at the cap, with more bytes waiting on a stream
\* that is still open and a connection that nobody closed
C40_Witness ==
    /\ monPc = "done"
    /\ Len(monOut.buf) = 4096
    /\ esPending # ""
    /\ esEnd = "open"
    /\ closed = <<>>
    /\ ErrorMsg(remoteErr) = "remote error: " \o monOut.buf

====
